---- MODULE Spec2Model ----
(***************************************************************************)
(* Model of shocks_and_reactions/shock_events.py: IdentifyShockEvents,     *)
(* its shock classification and its event-window construction.             *)
(*                                                                         *)
(* Dates are day numbers counted from 2020-01-01 (day 0).                  *)
(* Decimal columns are fixed-point with two digits: the stored integer n   *)
(* stands for n / 100 (SP500_Return, Rate_Change, Rate_Change_bp,          *)
(* threshold, SP500_Return_%).  The cumulative product and Cum_Return_%    *)
(* are exact fractions <<numerator, denominator>>.                         *)
(***************************************************************************)
EXTENDS Integers, Sequences, FiniteSets, TLC

VARIABLES
    data,           \* self.data: the series, rows sorted by Date
    in_dates,       \* the calendar a caller passes to _detect_shocks
    in_threshold,   \* the threshold a caller passes to _detect_shocks
    op,             \* the operation that ran last
    dates,          \* argument `dates` of the last _detect_shocks execution
    threshold,      \* argument `threshold` of the last _detect_shocks execution
    df,             \* first return value of the last _detect_shocks call
    event_windows,  \* the list event_windows built by the last call
    events_df,      \* second return value of the last _detect_shocks call
    raised,         \* exception raised by the last operation, or "none"
    vis,            \* the frame the last operation handed to _visualise_shocks
    avg_cum,        \* avg_cum of the last _visualise_shocks execution
    avg_by_type,    \* avg_by_type of the last _visualise_shocks execution
    sim,            \* a shocks_and_reactions EventSimulator and its last call
    pol,            \* a policy_impacts EventSimulator and its last call
    ld,             \* a DataLoader, what its downloads return, and the saved file
    corp            \* a corporate_decisions EventSimulator and its last call

vars == <<data, in_dates, in_threshold, op, dates, threshold, df,
          event_windows, events_df, raised, vis, avg_cum, avg_by_type, sim, pol,
          ld, corp>>

\* The variables of the IdentifyShockEvents object.
shock_vars == <<data, in_dates, in_threshold, op, dates, threshold, df,
                event_windows, events_df, raised, vis, avg_cum, avg_by_type>>

----------------------------------------------------------------------------
(* Bounds of the model *)

MaxRows == 3        \* longest series
MaxCal == 2         \* longest calendar passed to _detect_shocks directly

SeriesDays == {18, 28, 48, 49}      \* candidate row dates
CalDays == {28, 38, 62}             \* candidate calendar dates
Returns == {-2, 3}                  \* SP500_Return: -0.02, 0.03
RateChanges == {-10, 0, 10}         \* Rate_Change: -0.10, 0.00, 0.10
Fixed(n) == n * 100                 \* the fixed-point form of the number n
Thresholds == {Fixed(0), Fixed(10)}

----------------------------------------------------------------------------
(* Program constants *)

fomc_dates ==
    << 28, 62, 74, 119, 161, 210, 259, 309, 350, 392, 441, 483, 532, 574,
       630, 672, 714, 756, 805, 854, 896, 938, 994, 1036, 1078, 1127, 1176,
       1218, 1260, 1302, 1358, 1400, 1442, 1491, 1540, 1582, 1624, 1673,
       1722, 1772, 1813, 1855, 1904, 1953, 1995, 2037, 2086, 2128, 2170 >>

before_days == 10
after_days == 20
default_threshold == 10
NoEpoch == -1       \* stands for None in the FOMC_Window column

----------------------------------------------------------------------------
(* Helpers *)

Abs(x) == IF x < 0 THEN -x ELSE x

\* df.index
Index(frame) == [i \in 1..Len(frame) |-> frame[i].Date]

\* df.index.isin(dates), for one index value
IsIn(d, ds) == \E i \in 1..Len(ds) : ds[i] = d

\* next((i for i, date in enumerate(dates) if d >= date), None): the scan of
\* dates from position i on; enumerate counts from 0.
RECURSIVE NextHit(_, _, _)
NextHit(d, ds, i) ==
    IF i > Len(ds) THEN NoEpoch
    ELSE IF d >= ds[i] THEN i - 1
    ELSE NextHit(d, ds, i + 1)

FomcWindow(d, ds) == NextHit(d, ds, 1)

\* df["Rate_Change"] * 100
RateChangeBp(rc) == rc * 100

\* ShockType with the threshold compared strictly.
ShockTypeStrict(bp, t) ==
    LET mask == Abs(bp) > t
    IN  IF mask /\ bp > 0 THEN "Hike"
        ELSE IF mask /\ bp < 0 THEN "Cut"
        ELSE "No Shock"

\* df["Shock_Type"]: "No Shock", overwritten by "Hike" and "Cut" under the
\* mask abs(Rate_Change_bp) >= threshold and the sign of Rate_Change_bp.
ShockType(bp, t) ==
    LET mask == Abs(bp) >= t
    IN  IF mask /\ bp > 0 THEN "Hike"
        ELSE IF mask /\ bp < 0 THEN "Cut"
        ELSE "No Shock"

\* The enriched copy of self.data.
TagSeries(series, ds, t) ==
    [i \in 1..Len(series) |->
        [Date           |-> series[i].Date,
         SP500_Return   |-> series[i].SP500_Return,
         Rate_Change    |-> series[i].Rate_Change,
         is_fomc_date   |-> IsIn(series[i].Date, ds),
         FOMC_Window    |-> FomcWindow(series[i].Date, ds),
         Rate_Change_bp |-> RateChangeBp(series[i].Rate_Change),
         Shock_Type     |-> ShockType(RateChangeBp(series[i].Rate_Change), t)]]

\* LocSlice with the end label excluded, as in a positional slice.
LocSliceHalfOpen(frame, lo, hi) ==
    LET left  == Cardinality({i \in 1..Len(frame) : frame[i].Date < lo})
        right == Cardinality({i \in 1..Len(frame) : frame[i].Date < hi})
    IN  SubSeq(frame, left + 1, right)

\* frame.loc[lo : hi] on a sorted index: the label slice is the positional
\* slice between the insertion points of lo (left) and hi (right).
LocSlice(frame, lo, hi) ==
    LET left  == Cardinality({i \in 1..Len(frame) : frame[i].Date < lo})
        right == Cardinality({i \in 1..Len(frame) : frame[i].Date <= hi})
    IN  SubSeq(frame, left + 1, right)

\* WindowSlice reaching after_days back as well as forward.
WindowSliceSymmetric(frame, event_date) ==
    LocSlice(frame, event_date - after_days, event_date + after_days)

\* df.loc[event_date - 10 days : event_date + 20 days]
WindowSlice(frame, event_date) ==
    LocSlice(frame, event_date - before_days, event_date + after_days)

\* CumProd seeded with factor 1 at the first row: the first row's own return
\* is left out of the product.
RECURSIVE CumProdSeeded(_)
CumProdSeeded(rets) ==
    IF rets = <<>> THEN <<>>
    ELSE LET n    == Len(rets)
             head == CumProdSeeded(SubSeq(rets, 1, n - 1))
         IN  IF n = 1 THEN <<(<<100, 100>>)>>
             ELSE Append(head, <<head[n - 1][1] * (100 + rets[n]),
                                 head[n - 1][2] * 100>>)

\* CumProd adding the returns instead of compounding them (cumsum).
RECURSIVE CumSum(_)
CumSum(rets) ==
    IF rets = <<>> THEN <<>>
    ELSE LET n    == Len(rets)
             head == CumSum(SubSeq(rets, 1, n - 1))
             prev == IF n = 1 THEN <<1, 1>> ELSE head[n - 1]
         IN  Append(head, <<prev[1] * 100 + rets[n] * prev[2], prev[2] * 100>>)

\* The same factor with two trailing zero decimals removed, when it has them:
\* the value is unchanged and the denominator stays a power of 100.
Reduced(f) ==
    IF f[2] > 100 /\ f[1] % 100 = 0 THEN <<f[1] \div 100, f[2] \div 100>> ELSE f

\* (1 + window["SP500_Return"]).cumprod(): running product, as fractions.
RECURSIVE CumProd(_)
CumProd(rets) ==
    IF rets = <<>> THEN <<>>
    ELSE LET n    == Len(rets)
             head == CumProd(SubSeq(rets, 1, n - 1))
             prev == IF n = 1 THEN <<1, 1>> ELSE head[n - 1]
         IN  Append(head, Reduced(<<prev[1] * (100 + rets[n]), prev[2] * 100>>))

\* CumReturnPct without the factor 100: the cumulative return as a fraction
\* of 1 instead of a percentage.
CumReturnFraction(f) == <<f[1] - f[2], f[2]>>

\* (cum_factor - 1) * 100; the denominator of a factor is a power of 100.
CumReturnPct(f) == <<f[1] - f[2], f[2] \div 100>>

\* The body of the loop for one event date with a non-empty window.
BuildWindow(window, event_date) ==
    LET cum_factor == CumProd([i \in 1..Len(window) |-> window[i].SP500_Return])
    IN  [i \in 1..Len(window) |->
            [Date            |-> window[i].Date,
             SP500_Return_pct |-> window[i].SP500_Return * 100,
             Days_From_Event |-> window[i].Date - event_date,
             Event_Date      |-> event_date,
             Cum_Return_pct  |-> CumReturnPct(cum_factor[i]),
             Shock_Type      |-> window[i].Shock_Type]]

\* EventWindowsUpTo without the emptiness test.
RECURSIVE EventWindowsUpToNoSkip(_, _, _)
EventWindowsUpToNoSkip(frame, ds, n) ==
    IF n = 0 THEN <<>>
    ELSE Append(EventWindowsUpToNoSkip(frame, ds, n - 1),
                BuildWindow(WindowSlice(frame, ds[n]), ds[n]))

\* The loop over dates: the list event_windows after the first n dates.
RECURSIVE EventWindowsUpTo(_, _, _)
EventWindowsUpTo(frame, ds, n) ==
    IF n = 0 THEN <<>>
    ELSE LET earlier == EventWindowsUpTo(frame, ds, n - 1)
             window  == WindowSlice(frame, ds[n])
         IN  IF window # <<>>
             THEN Append(earlier, BuildWindow(window, ds[n]))
             ELSE earlier

EventWindows(frame, ds) == EventWindowsUpTo(frame, ds, Len(ds))

\* Concat keeping only the first copy of every series row (rows with an index
\* value already present are dropped).
RECURSIVE ConcatDedup(_)
ConcatDedup(ws) ==
    IF ws = <<>> THEN <<>>
    ELSE LET earlier == ConcatDedup(SubSeq(ws, 1, Len(ws) - 1))
         IN  earlier \o SelectSeq(ws[Len(ws)],
                 LAMBDA row : \A j \in 1..Len(earlier) : earlier[j].Date # row.Date)

\* Concat putting each window in front of the earlier ones.
RECURSIVE ConcatReversed(_)
ConcatReversed(ws) ==
    IF ws = <<>> THEN <<>>
    ELSE ws[Len(ws)] \o ConcatReversed(SubSeq(ws, 1, Len(ws) - 1))

\* pd.concat(event_windows)
RECURSIVE Concat(_)
Concat(ws) ==
    IF ws = <<>> THEN <<>> ELSE Concat(SubSeq(ws, 1, Len(ws) - 1)) \o ws[Len(ws)]

\* The sequence s as a tuple of evaluated elements.
AsTuple(s) == s \o <<>>

(* Frames are held by objects and a variable of the code names one: a write
   through a variable reaches the object it names, whoever else names it. *)

\* The objects of one execution of _detect_shocks.
Objects == {"self.data", "df", "window"}

\* CopyRef naming the object that was copied: the variable is bound to the
\* original instead of the copy.
SameRef(obj, new) == obj

\* obj.copy(): the reference it returns names the new object.
CopyRef(obj, new) == new

\* The heap once the new object holds rows.
Allocate(heap, new, rows) ==
    [o \in Objects |-> IF o = new THEN rows ELSE heap[o]]

\* frame[column] = values through the variable ref, rows being the written
\* rows with all their columns: the rows of the object ref names that were
\* written take the new columns, every other object keeps its rows.
WriteRows(heap, ref, rows) ==
    [o \in Objects |->
        IF o # ref THEN heap[o]
        ELSE AsTuple([i \in 1..Len(heap[o]) |->
                 IF \E j \in 1..Len(rows) : rows[j].Date = heap[o][i].Date
                 THEN rows[CHOOSE j \in 1..Len(rows) : rows[j].Date = heap[o][i].Date]
                 ELSE heap[o][i]])]

\* The copies of line 127 taken together: the rows of frame that lie in the
\* slice of a date of ds.
Slices(frame, ds) ==
    SelectSeq(frame, LAMBDA row :
        \E n \in 1..Len(ds) : \E k \in 1..Len(WindowSlice(frame, ds[n])) :
            WindowSlice(frame, ds[n])[k].Date = row.Date)

\* The rows of the slices as the loop leaves them: their own columns and the
\* columns the body wrote, a row of several slices as its last pass wrote it.
WindowsWritten(slices, windows) ==
    LET written == Concat(windows)
    IN  AsTuple([i \in 1..Len(slices) |->
            LET hits == {j \in 1..Len(written) : written[j].Date = slices[i].Date}
                last == written[CHOOSE j \in hits : \A k \in hits : k <= j]
            IN  [c \in DOMAIN slices[i] \cup DOMAIN last |->
                    IF c \in DOMAIN last THEN last[c] ELSE slices[i][c]]])

\* The heap when _detect_shocks(ds, t) is left, self.data holding series when
\* it was entered: df = self.data.copy(), the columns of lines 112 to 121
\* written through df, then the loop, whose passes bind window to a copy of
\* a slice of df and write the window columns through window.
HeapAfterDetect(series, ds, t) ==
    LET entered == [o \in Objects |-> IF o = "self.data" THEN series ELSE <<>>]
        df_ref  == CopyRef("self.data", "df")
        copied  == Allocate(entered, "df", entered["self.data"])
        tagged  == WriteRows(copied, df_ref, TagSeries(copied[df_ref], ds, t))
        window  == CopyRef(df_ref, "window")
        slices  == Slices(tagged[df_ref], ds)
    IN  [heap |-> WriteRows(Allocate(tagged, "window", slices), window,
                            WindowsWritten(slices, EventWindows(tagged[df_ref], ds))),
         df |-> df_ref]

\* _detect_shocks(dates, threshold) on self.data = series: the frames it
\* returns, and self.data as the call leaves it.  With no window at all the
\* else branch selects the window columns from df, which has none of them,
\* and the call raises KeyError.
DetectShocks(series, ds, t) ==
    LET after   == HeapAfterDetect(series, ds, t)
        windows == EventWindows(after.heap[after.df], ds)
    IN  IF windows # <<>>
        THEN [raised |-> "none", df |-> after.heap[after.df], event_windows |-> windows,
              events_df |-> Concat(windows),
              data |-> after.heap["self.data"]]
        ELSE [raised |-> "KeyError", df |-> <<>>, event_windows |-> <<>>,
              events_df |-> <<>>,
              data |-> after.heap["self.data"]]

\* The values of a set in ascending order (groupby sorts its keys).
RECURSIVE SortedKeys(_)
SortedKeys(S) ==
    IF S = {} THEN <<>>
    ELSE LET m == CHOOSE x \in S : \A y \in S : x <= y
         IN  <<m>> \o SortedKeys(S \ {m})

\* The sum of Cum_Return_% over the rows G of frame, as a numerator over the
\* denominator den, a multiple of every row's denominator.
RECURSIVE SumScaled(_, _, _)
SumScaled(frame, G, den) ==
    IF G = {} THEN 0
    ELSE LET j == CHOOSE x \in G : TRUE
             c == frame[j].Cum_Return_pct
         IN  c[1] * (den \div c[2]) + SumScaled(frame, G \ {j}, den)

\* The largest denominator of Cum_Return_% among the rows G of frame.
CommonDen(frame, G) ==
    CHOOSE d \in {frame[j].Cum_Return_pct[2] : j \in G} :
        \A j \in G : frame[j].Cum_Return_pct[2] <= d

\* GroupMean with the group's total in place of its mean.
GroupSum(frame, G) ==
    <<SumScaled(frame, G, CommonDen(frame, G)), CommonDen(frame, G)>>

\* ["Cum_Return_%"].mean() of one group: the sum of the group's values over
\* their number.
GroupMean(frame, G) ==
    <<SumScaled(frame, G, CommonDen(frame, G)), CommonDen(frame, G) * Cardinality(G)>>

\* data.groupby("Days_From_Event")["Cum_Return_%"].mean().reset_index()
AvgCum(frame) ==
    LET keys == SortedKeys({frame[j].Days_From_Event : j \in 1..Len(frame)})
    IN  [i \in 1..Len(keys) |->
            [Days_From_Event |-> keys[i],
             Cum_Return_pct  |-> GroupMean(frame,
                 {j \in 1..Len(frame) : frame[j].Days_From_Event = keys[i]})]]

\* The Shock_Type labels in their sort order.
ShockTypes == <<"Cut", "Hike", "No Shock">>

\* The groups of one offset in avg_by_type: one per label present at it, in
\* label order.
TypeGroups(frame, offset) ==
    LET at(label) == {j \in 1..Len(frame) : /\ frame[j].Days_From_Event = offset
                                             /\ frame[j].Shock_Type = label}
        present   == SelectSeq(ShockTypes, LAMBDA label : at(label) # {})
    IN  [i \in 1..Len(present) |->
            [Days_From_Event |-> offset,
             Shock_Type      |-> present[i],
             Cum_Return_pct  |-> GroupMean(frame, at(present[i]))]]

\* data.groupby(["Days_From_Event", "Shock_Type"])["Cum_Return_%"].mean()
\* .reset_index(), for the offsets keys[1..n].
RECURSIVE AvgByTypeUpTo(_, _, _)
AvgByTypeUpTo(frame, keys, n) ==
    IF n = 0 THEN <<>>
    ELSE AvgByTypeUpTo(frame, keys, n - 1) \o TypeGroups(frame, keys[n])

AvgByType(frame) ==
    LET keys == SortedKeys({frame[j].Days_From_Event : j \in 1..Len(frame)})
    IN  AvgByTypeUpTo(frame, keys, Len(keys))

\* _visualise_shocks(frame): nothing is computed for an empty frame; otherwise
\* the two averaged frames that are plotted.
VisualiseShocks(frame) ==
    IF frame = <<>>
    THEN [avg_cum |-> <<>>, avg_by_type |-> <<>>]
    ELSE [avg_cum |-> AvgCum(frame), avg_by_type |-> AvgByType(frame)]

\* _fit_shocks(df): the regression sample is df after shift(1) and dropna().
\* An empty sample makes the fit raise, and a sample of one row makes
\* model.summary() raise (its Jarque-Bera test needs two residuals).
FitShocks(frame) ==
    LET sample == {i \in 2..Len(frame) : frame[i].FOMC_Window # NoEpoch}
    IN  IF Cardinality(sample) < 2 THEN "ValueError" ELSE "none"

----------------------------------------------------------------------------
(* Input spaces *)

RECURSIVE SortedDaySeqs(_)
\* The ascending sequences of at most n distinct days of SeriesDays.
SortedDaySeqs(n) ==
    IF n = 0 THEN {<<>>}
    ELSE LET shorter == SortedDaySeqs(n - 1)
         IN  shorter \cup
             {Append(s, d) : <<s, d>> \in
                 {p \in shorter \X SeriesDays :
                     Len(p[1]) = n - 1 /\
                     (p[1] = <<>> \/ p[1][Len(p[1])] < p[2])}}

SeriesOver(days) ==
    {[i \in 1..Len(days) |->
        [Date |-> days[i], SP500_Return |-> rv[i][1], Rate_Change |-> rv[i][2]]] :
     rv \in [1..Len(days) -> Returns \X RateChanges]}

AllSeries == UNION {SeriesOver(days) : days \in SortedDaySeqs(MaxRows)}

RECURSIVE Calendars(_)
\* The sequences of at most n distinct days of CalDays, in any order.
Calendars(n) ==
    IF n = 0 THEN {<<>>}
    ELSE LET shorter == Calendars(n - 1)
         IN  shorter \cup
             {Append(p[1], p[2]) : p \in
                 {q \in shorter \X CalDays :
                     Len(q[1]) = n - 1 /\ ~IsIn(q[2], q[1])}}

----------------------------------------------------------------------------
(* shocks_and_reactions/simulate_events.py: EventSimulator *)

\* Numbers of the simulator are exact fractions <<numerator, denominator>> in
\* lowest terms with a positive denominator; NaN is the missing value.
NaN == <<0, 0>>

RECURSIVE GCD(_, _)
GCD(a, b) == IF b = 0 THEN a ELSE GCD(b, a % b)

Rat(n, d) ==
    LET g == GCD(Abs(n), Abs(d))
    IN  IF d < 0 THEN <<(0 - n) \div g, (0 - d) \div g>> ELSE <<n \div g, d \div g>>

\* Sum and difference over the least common denominator.
RatAdd(a, b) ==
    LET g == GCD(a[2], b[2])
    IN  Rat(a[1] * (b[2] \div g) + b[1] * (a[2] \div g), (a[2] \div g) * b[2])

RatSub(a, b) == RatAdd(a, <<0 - b[1], b[2]>>)

RatMul(a, b) ==
    LET x == Rat(a[1], b[2])
        y == Rat(b[1], a[2])
    IN  <<x[1] * y[1], x[2] * y[2]>>

RatDiv(a, b) == RatMul(a, Rat(b[2], b[1]))

\* The inner product of two vectors of fractions.
RECURSIVE Inner(_, _)
Inner(a, b) ==
    IF a = <<>> THEN <<0, 1>>
    ELSE RatAdd(RatMul(Head(a), Head(b)), Inner(Tail(a), Tail(b)))

\* The matrix M without its first row and its column j.
Minor(M, j) ==
    AsTuple([i \in 1..Len(M) - 1 |->
        AsTuple([c \in 1..Len(M) - 1 |-> M[i + 1][IF c < j THEN c ELSE c + 1]])])

\* The determinant of a square matrix, expanded along its first row;
\* DetExpand sums the terms of the columns 1..j.
RECURSIVE Det(_), DetExpand(_, _)
Det(M) ==
    IF Len(M) = 0 THEN <<1, 1>>
    ELSE IF Len(M) = 1 THEN M[1][1]
    ELSE DetExpand(M, Len(M))

DetExpand(M, j) ==
    IF j = 0 THEN <<0, 1>>
    ELSE LET term == RatMul(M[1][j], Det(Minor(M, j)))
         IN  IF j % 2 = 1 THEN RatAdd(DetExpand(M, j - 1), term)
             ELSE RatSub(DetExpand(M, j - 1), term)

\* The solution x of A x = v for an invertible A (Cramer's rule).
SolveLinear(A, v) ==
    LET d == Det(A)
    IN  AsTuple([j \in 1..Len(A) |->
            RatDiv(Det(AsTuple([i \in 1..Len(A) |->
                           AsTuple([c \in 1..Len(A) |-> IF c = j THEN v[i] ELSE A[i][c]])])),
                   d)])

\* The entries of G on the given rows and columns.
SubMatrix(G, rows, cols) ==
    AsTuple([a \in 1..Len(rows) |-> AsTuple([b \in 1..Len(cols) |-> G[rows[a]][cols[b]]])])

\* A largest set of linearly independent rows among the first n rows of the
\* matrix with Gram matrix G: row n joins the rows chosen before it when the
\* Gram determinant stays non-zero.
RECURSIVE IndependentRows(_, _)
IndependentRows(G, n) ==
    IF n = 0 THEN <<>>
    ELSE LET before == IndependentRows(G, n - 1)
             with   == Append(before, n)
         IN  IF Det(SubMatrix(G, with, with)) # <<0, 1>> THEN with ELSE before

\* sm.OLS(y, X).fit().params: the least-squares solution of X b = y of least
\* norm, pinv(X) y.  It lies in the row space of X, b = X_R' z over
\* independent rows R spanning it, and the normal equations leave
\* (G_R. G_.R) z = G_R. y with G = X X'; when every row is independent this
\* is G z = y.
LeastSquares(X, y) ==
    LET n == Len(X)
        G == AsTuple([i \in 1..n |-> AsTuple([j \in 1..n |-> Inner(X[i], X[j])])])
        R == IndependentRows(G, n)
        z == IF Len(R) = n THEN SolveLinear(G, y)
             ELSE SolveLinear(
                      AsTuple([a \in 1..Len(R) |->
                          AsTuple([b \in 1..Len(R) |->
                              Inner(G[R[a]], AsTuple([i \in 1..n |-> G[i][R[b]]]))])]),
                      AsTuple([a \in 1..Len(R) |-> Inner(G[R[a]], y)]))
    IN  AsTuple([c \in 1..Len(X[1]) |->
                    Inner(AsTuple([a \in 1..Len(R) |-> X[R[a]][c]]), z)])

\* Series.pct_change() at one row: NaN at the first row.
PctChange(cur, prev) ==
    IF prev = NaN \/ cur = NaN THEN NaN ELSE RatSub(RatDiv(cur, prev), <<1, 1>>)

\* Series.diff() at one row.
Diff(cur, prev) == IF prev = NaN \/ cur = NaN THEN NaN ELSE RatSub(cur, prev)

\* Rate_Change * 100
SimRateChangeBp(rc) == IF rc = NaN THEN NaN ELSE RatMul(rc, <<100, 1>>)

\* The threshold of feature_engineering, in basis points.
sim_threshold == 10

\* Shock_Type of feature_engineering: "No_Shock" unless abs(bp) >= 10, and a
\* comparison with NaN is false.
SimShockType(bp) ==
    IF bp = NaN THEN "No_Shock"
    ELSE IF bp[1] >= sim_threshold * bp[2] THEN "Hike"
    ELSE IF 0 - bp[1] >= sim_threshold * bp[2] THEN "Cut"
    ELSE "No_Shock"

\* The value of column col one row up (shift(1)), NaN at the first row.
Shifted(rows, i, col) == IF i = 1 THEN NaN ELSE rows[i - 1][col]

\* Series.ffill() at place i: the last value of s[1..i] that is not missing.
RECURSIVE LastValid(_, _)
LastValid(s, i) ==
    IF i = 0 THEN NaN
    ELSE IF s[i] # NaN THEN s[i]
    ELSE LastValid(s, i - 1)

\* Series.pct_change() of the column col.  Its fill_method default depends
\* on the installed pandas: before 3.0 missing values are filled forward
\* before the change is taken (pads), from 3.0 on they are not.
PctChangeOfColumn(rows, col, pads) ==
    LET s == AsTuple([i \in 1..Len(rows) |-> rows[i][col]])
        filled == AsTuple([i \in 1..Len(rows) |-> IF pads THEN LastValid(s, i) ELSE s[i]])
    IN  AsTuple([i \in 1..Len(rows) |->
                    IF i = 1 THEN NaN ELSE PctChange(filled[i], filled[i - 1])])

\* feature_engineering up to the rate and return columns; M1_Growth is the
\* change of the M1 column, filled forward.
WithReturns(rows, pads) ==
    LET returns == PctChangeOfColumn(rows, "Close", pads)
        growth  == PctChangeOfColumn(rows, "M1_Money_Supply", pads)
    IN  [i \in 1..Len(rows) |->
            LET rc == Diff(rows[i].Effective_Federal_Funds_Rate,
                           Shifted(rows, i, "Effective_Federal_Funds_Rate"))
            IN  [Date |-> rows[i].Date,
                 Close |-> rows[i].Close,
                 Effective_Federal_Funds_Rate |-> rows[i].Effective_Federal_Funds_Rate,
                 M1_Money_Supply |-> rows[i].M1_Money_Supply,
                 SP500_Return |-> returns[i],
                 Rate_Change |-> rc,
                 Rate_Change_bp |-> SimRateChangeBp(rc),
                 M1_Growth |-> LastValid(growth, i)]]

\* The columns of feature_engineering on every row, before dropna.  Without
\* an M1 column (M1_Money_Supply is NaN on every row) Lagged_M1_Growth is 0.
WithFeatures(rows, has_m1, pads) ==
    LET r == WithReturns(rows, pads)
    IN  [i \in 1..Len(r) |->
            [Date |-> r[i].Date,
             Close |-> r[i].Close,
             Effective_Federal_Funds_Rate |-> r[i].Effective_Federal_Funds_Rate,
             M1_Money_Supply |-> r[i].M1_Money_Supply,
             SP500_Return |-> r[i].SP500_Return,
             Rate_Change |-> r[i].Rate_Change,
             Rate_Change_bp |-> r[i].Rate_Change_bp,
             M1_Growth |-> r[i].M1_Growth,
             Lagged_Return |-> Shifted(r, i, "SP500_Return"),
             Lagged_M1_Growth |-> IF has_m1 THEN Shifted(r, i, "M1_Growth") ELSE <<0, 1>>,
             is_fomc_date |-> IsIn(r[i].Date, fomc_dates),
             Shock_Type |-> SimShockType(r[i].Rate_Change_bp)]]

\* The columns holding numbers.
NumericColumns ==
    {"Close", "Effective_Federal_Funds_Rate", "M1_Money_Supply", "SP500_Return",
     "Rate_Change", "Rate_Change_bp", "M1_Growth", "Lagged_Return",
     "Lagged_M1_Growth"}

\* The columns feature_engineering adds to a frame with the given columns.
EngineeredColumns(columns) ==
    {"SP500_Return", "Rate_Change", "Rate_Change_bp", "Lagged_Return",
     "Lagged_M1_Growth", "is_fomc_date", "Shock_Type"}
        \cup (IF "M1_Money_Supply" \in columns THEN {"M1_Growth"} ELSE {})

\* feature_engineering() on a frame with the columns Close and Effective
\* Federal Funds Rate: the engineered columns, then dropna(inplace=True),
\* which drops every row with NaN in some column of the frame.
FeatureEngineering(rows, columns, pads) ==
    SelectSeq(WithFeatures(rows, "M1_Money_Supply" \in columns, pads),
              LAMBDA row :
                  \A col \in (columns \cup EngineeredColumns(columns)) \cap NumericColumns :
                      row[col] # NaN)

\* The Shock_Type categories, in their sort order.
SimShockTypes == <<"Cut", "Hike", "No_Shock">>

\* The name of the dummy column of a category.
DummyColumn(cat) ==
    CASE cat = "Cut" -> "Shock_Type_Cut"
      [] cat = "Hike" -> "Shock_Type_Hike"
      [] cat = "No_Shock" -> "Shock_Type_No_Shock"

\* col.replace("Shock_Type_", "")
DummyName(col) ==
    CASE col = "Shock_Type_Cut" -> "Cut"
      [] col = "Shock_Type_Hike" -> "Hike"
      [] col = "Shock_Type_No_Shock" -> "No_Shock"

IsDummy(col) == col \in {"Shock_Type_Cut", "Shock_Type_Hike", "Shock_Type_No_Shock"}

\* pd.get_dummies(columns=["Shock_Type"], drop_first=True): one column per
\* category present in the data, but for the first.
ShockDummies(rows) ==
    LET present == SelectSeq(SimShockTypes,
                       LAMBDA cat : \E i \in 1..Len(rows) : rows[i].Shock_Type = cat)
    IN  IF present = <<>> THEN <<>>
        ELSE [i \in 1..Len(present) - 1 |-> DummyColumn(present[i + 1])]

base_features == <<"Rate_Change_bp", "Lagged_M1_Growth", "Lagged_Return">>

\* The value of a column of X on a row of model_data.
XValue(row, col) ==
    IF col = "const" THEN <<1, 1>>
    ELSE IF IsDummy(col)
    THEN (IF row.Shock_Type = DummyName(col) THEN <<1, 1>> ELSE <<0, 1>>)
    ELSE row[col]

\* sm.add_constant(X) leaves X as it is when X has a column with one
\* non-zero value on every row; otherwise it prepends the column const.
HasConstantColumn(rows, cols) ==
    \E c \in 1..Len(cols) :
        /\ XValue(rows[1], cols[c]) # <<0, 1>>
        /\ \A i \in 1..Len(rows) : XValue(rows[i], cols[c]) = XValue(rows[1], cols[c])

XColumns(rows) ==
    LET cols == base_features \o ShockDummies(rows)
    IN  IF HasConstantColumn(rows, cols) THEN cols ELSE <<"const">> \o cols

\* The columns a fitted model can have a coefficient for.
AllXColumns ==
    {"const", "Rate_Change_bp", "Lagged_M1_Growth", "Lagged_Return",
     "Shock_Type_Hike", "Shock_Type_No_Shock"}

NoCoefficients == [col \in AllXColumns |-> <<0, 1>>]

\* sm.OLS(y, X).fit().params by column of X, with y the column SP500_Return.
Coefficients(rows) ==
    LET cols == XColumns(rows)
        b == LeastSquares(AsTuple([i \in 1..Len(rows) |->
                              AsTuple([c \in 1..Len(cols) |-> XValue(rows[i], cols[c])])]),
                          AsTuple([i \in 1..Len(rows) |-> rows[i].SP500_Return]))
    IN  [col \in AllXColumns |->
            IF IsIn(col, cols)
            THEN b[CHOOSE c \in 1..Len(cols) : cols[c] = col]
            ELSE <<0, 1>>]

\* fit_model() on self.data with the given columns: get_dummies needs the
\* column Shock_Type, least squares needs at least one row, and
\* print(model.summary()) needs two (its Jarque-Bera test raises on one
\* residual), before self.model is assigned.
FitModel(columns, rows) ==
    IF "Shock_Type" \notin columns
    THEN [raised |-> "KeyError", has_model |-> FALSE, model |-> NoCoefficients, X |-> <<>>]
    ELSE IF Len(rows) < 2
    THEN [raised |-> "ValueError", has_model |-> FALSE, model |-> NoCoefficients, X |-> <<>>]
    ELSE [raised |-> "none", has_model |-> TRUE, model |-> Coefficients(rows),
          X |-> XColumns(rows)]

\* predictions_dict of one day.
\* Predictors that apply the announcement on every simulated day.
PredictorsEveryDay(X, day, rate_bp, shock_type, lagged_m1, lagged_return) ==
    [col \in AllXColumns |->
        CASE col = "const" -> <<1, 1>>
          [] col = "Rate_Change_bp" -> rate_bp
          [] col = "Lagged_M1_Growth" -> lagged_m1
          [] col = "Lagged_Return" -> lagged_return
          [] OTHER -> IF IsIn(col, X) /\ DummyName(col) = shock_type
                      THEN <<1, 1>> ELSE <<0, 1>>]

Predictors(X, day, rate_bp, shock_type, lagged_m1, lagged_return) ==
    [col \in AllXColumns |->
        CASE col = "const" -> <<1, 1>>
          [] col = "Rate_Change_bp" -> IF day = 0 THEN rate_bp ELSE <<0, 1>>
          [] col = "Lagged_M1_Growth" -> lagged_m1
          [] col = "Lagged_Return" -> lagged_return
          [] OTHER -> IF IsIn(col, X) /\ day = 0 /\ DummyName(col) = shock_type
                      THEN <<1, 1>> ELSE <<0, 1>>]

\* self.model.predict(X_predictions)[0]: the coefficients times the
\* predictors, over the columns of X.
RECURSIVE PredictUpTo(_, _, _, _)
PredictUpTo(model, X, predictors, n) ==
    IF n = 0 THEN <<0, 1>>
    ELSE RatAdd(PredictUpTo(model, X, predictors, n - 1),
                RatMul(model[X[n]], predictors[X[n]]))

Predict(model, X, predictors) == PredictUpTo(model, X, predictors, Len(X))

\* A simulation loop that applies every day's return to the starting level.
RECURSIVE SimulateFromStart(_, _, _, _, _, _, _)
SimulateFromStart(model, X, last_row, rate_bp, shock_type, start_sp500, n) ==
    IF n = 0 THEN <<>>
    ELSE LET before == SimulateFromStart(model, X, last_row, rate_bp, shock_type,
                                         start_sp500, n - 1)
             day    == n - 1
             current_lagged_return ==
                 IF day = 0 THEN last_row.Lagged_Return ELSE before[day].predicted_return
             predictions == Predictors(X, day, rate_bp, shock_type,
                                       last_row.Lagged_M1_Growth, current_lagged_return)
             predicted_return == Predict(model, X, predictions)
         IN  Append(before,
                 [day |-> day,
                  predictions |-> predictions,
                  predicted_return |-> predicted_return,
                  new_sp500 |-> RatMul(start_sp500, RatAdd(<<1, 1>>, predicted_return))])

\* The state of the simulation loop after the days 0..n-1: one entry per day
\* with the predictors used, the predicted return and the new level.
RECURSIVE SimulateUpTo(_, _, _, _, _, _, _)
SimulateUpTo(model, X, last_row, rate_bp, shock_type, start_sp500, n) ==
    IF n = 0 THEN <<>>
    ELSE LET before == SimulateUpTo(model, X, last_row, rate_bp, shock_type,
                                    start_sp500, n - 1)
             day    == n - 1
             current_sp500 == IF day = 0 THEN start_sp500 ELSE before[day].new_sp500
             current_lagged_return ==
                 IF day = 0 THEN last_row.Lagged_Return ELSE before[day].predicted_return
             predictions == Predictors(X, day, rate_bp, shock_type,
                                       last_row.Lagged_M1_Growth, current_lagged_return)
             predicted_return == Predict(model, X, predictions)
         IN  Append(before,
                 [day |-> day,
                  predictions |-> predictions,
                  predicted_return |-> predicted_return,
                  new_sp500 |-> RatMul(current_sp500, RatAdd(<<1, 1>>, predicted_return))])

\* round(4) of one number: the nearest multiple of 0.0001, a tie going to the
\* even multiple.
Round4(x) ==
    LET whole == x[1] \div x[2]
        r1 == (x[1] % x[2]) * 10
        r2 == (r1 % x[2]) * 10
        r3 == (r2 % x[2]) * 10
        r4 == (r3 % x[2]) * 10
        q == (r1 \div x[2]) * 1000 + (r2 \div x[2]) * 100 + (r3 \div x[2]) * 10
                 + (r4 \div x[2])
        twice == 2 * (r4 % x[2])
        up == twice > x[2] \/ (twice = x[2] /\ q % 2 = 1)
    IN  RatAdd(<<whole, 1>>, Rat(IF up THEN q + 1 ELSE q, 10000))

\* simulation_df: the rows appended to sim_rows, rounded.
SimulationFrame(loop, start_date, start_sp500) ==
    [k \in 1..Len(loop) |->
        [Simulated_Date |-> start_date + loop[k].day + 1,
         Day |-> loop[k].day,
         Predicted_Daily_Return_pct |->
             Round4(RatMul(loop[k].predicted_return, <<100, 1>>)),
         Cumulative_Return_pct |->
             Round4(RatMul(RatSub(RatDiv(loop[k].new_sp500, start_sp500), <<1, 1>>),
                           <<100, 1>>)),
         Simulated_SP500_Level |-> Round4(loop[k].new_sp500)]]

\* simulate_event(days_ahead, announcement_rate_change_bp, shock_type).  The
\* attribute self.model exists only once fit_model has set it, so the guard
\* `self.model is None` raises AttributeError on an instance never fitted.
SimulateEvent(s, days_ahead, rate_bp, shock_type) ==
    IF ~s.has_model
    THEN [raised |-> "AttributeError", loop |-> <<>>, out |-> <<>>]
    ELSE IF s.data = <<>>
    THEN [raised |-> "IndexError", loop |-> <<>>, out |-> <<>>]
    ELSE LET last_row == s.data[Len(s.data)]
             loop == SimulateUpTo(s.model, s.X, last_row, rate_bp, shock_type,
                                  last_row.Close, days_ahead)
         IN  [raised |-> "none", loop |-> loop,
              out |-> SimulationFrame(loop, last_row.Date, last_row.Close)]

\* Input spaces of the simulator.
MaxSimRows == 4

SimCloses == {<<100, 1>>, <<200, 1>>}

\* Rates one basis point apart, and rates a shock apart.
SimRates == {<<3, 2>>, <<151, 100>>}

ShockRates == {<<3, 2>>, <<8, 5>>}

\* The M1 column by row: no column, monthly figures carried forward, and the
\* same with one figure missing.
NoM1 == <<>>

SimM1 == <<(<<100, 1>>), <<100, 1>>, <<200, 1>>, <<200, 1>>, <<400, 1>>, <<400, 1>>>>

SimM1Gap == <<(<<100, 1>>), <<200, 1>>, NaN, <<400, 1>>, <<400, 1>>, <<400, 1>>>>

SimM1Columns == {NoM1, SimM1, SimM1Gap}

\* The file with the given closes, rates and M1 column.
SimFile(closes, rates, m1) ==
    [i \in 1..Len(closes) |->
        [Date |-> 26 + i,
         Close |-> closes[i],
         Effective_Federal_Funds_Rate |-> rates[i],
         M1_Money_Supply |-> IF m1 = NoM1 THEN NaN ELSE m1[i]]]

\* Files whose rate moves by a basis point, with every course of the level.
SmallStepFiles(m1) ==
    UNION {{SimFile([i \in 1..n |-> cr[i][1]], [i \in 1..n |-> cr[i][2]], m1) :
            cr \in [1..n -> SimCloses \X SimRates]} : n \in 0..MaxSimRows}

\* Files whose rate moves by a shock, with a level that moves on the last
\* row only.
ShockFiles(m1) ==
    UNION {{SimFile([i \in 1..n |-> IF i < n THEN lv[1] ELSE lv[2]], rates, m1) :
            lv \in {q \in SimCloses \X SimCloses : q[1] # q[2]},
            rates \in [1..n -> ShockRates]} : n \in 1..MaxSimRows}

\* The files read, each with its M1 column; the missing figure occurs in the
\* files with shocks.
SimFiles ==
    UNION {{<<m1, rows>> : rows \in SmallStepFiles(m1)} : m1 \in {NoM1, SimM1}}
        \cup UNION {{<<m1, rows>> : rows \in ShockFiles(m1)} : m1 \in SimM1Columns}

DaysAhead == {0, 1, 2}

\* The hypothetical announcements: rate change in basis points and shock type.
Announcements ==
    {<<(<<0, 1>>), "No_Shock">>, <<(<<10, 1>>), "Hike">>, <<(<<-10, 1>>), "Cut">>}

\* No EventSimulator exists.
NoSimulator == [op |-> "none"]

\* No DataLoader exists.
NoLoader == [op |-> "none"]

\* No IdentifyShockEvents object exists.
NoShockObject ==
    /\ data = <<>>
    /\ in_dates = <<>>
    /\ in_threshold = Fixed(default_threshold)
    /\ op = "none"
    /\ dates = <<>>
    /\ threshold = Fixed(default_threshold)
    /\ df = <<>>
    /\ event_windows = <<>>
    /\ events_df = <<>>
    /\ raised = "none"
    /\ vis = <<>>
    /\ avg_cum = <<>>
    /\ avg_by_type = <<>>

\* EventSimulator(path): __init__ reads the file into self.data and sets
\* nothing else.
InitSim ==
    /\ \E file \in SimFiles :
       \E pads \in (IF file[1] = SimM1Gap THEN BOOLEAN ELSE {FALSE}) :
       \E d \in DaysAhead : \E a \in Announcements :
        sim = [op |-> "__init__", raised |-> "none", pads |-> pads,
               columns |-> {"Close", "Effective_Federal_Funds_Rate"}
                               \cup (IF file[1] = NoM1 THEN {} ELSE {"M1_Money_Supply"}),
               data |-> file[2],
               has_model |-> FALSE, model |-> NoCoefficients, X |-> <<>>,
               in_days_ahead |-> d, in_rate_bp |-> a[1], in_shock_type |-> a[2],
               loop |-> <<>>, out |-> <<>>]
    /\ pol = NoSimulator
    /\ ld = NoLoader
    /\ corp = NoSimulator
    /\ NoShockObject

\* feature_engineering()
FeatureEngineeringCall ==
    /\ sim.op # "none"
    /\ sim' = [sim EXCEPT
                 !.op = "feature_engineering",
                 !.raised = "none",
                 !.columns = sim.columns \cup EngineeredColumns(sim.columns),
                 !.data = FeatureEngineering(sim.data, sim.columns, sim.pads),
                 !.loop = <<>>, !.out = <<>>]
    /\ UNCHANGED <<shock_vars, pol, ld, corp>>

\* fit_model()
FitModelCall ==
    /\ sim.op # "none"
    /\ \E f \in {FitModel(sim.columns, sim.data)} :
        sim' = [sim EXCEPT
                  !.op = "fit_model",
                  !.raised = f.raised,
                  !.has_model = IF f.raised = "none" THEN TRUE ELSE sim.has_model,
                  !.model = IF f.raised = "none" THEN f.model ELSE sim.model,
                  !.X = IF f.raised = "none" THEN f.X ELSE sim.X,
                  !.loop = <<>>, !.out = <<>>]
    /\ UNCHANGED <<shock_vars, pol, ld, corp>>

\* simulate_event(in_days_ahead, in_rate_bp, in_shock_type)
SimulateEventCall ==
    /\ sim.op # "none"
    /\ \E r \in {SimulateEvent(sim, sim.in_days_ahead, sim.in_rate_bp, sim.in_shock_type)} :
        sim' = [sim EXCEPT
                  !.op = "simulate_event",
                  !.raised = r.raised,
                  !.loop = r.loop,
                  !.out = r.out]
    /\ UNCHANGED <<shock_vars, pol, ld, corp>>

NextSim == FeatureEngineeringCall \/ FitModelCall \/ SimulateEventCall

SpecSim == InitSim /\ [][NextSim]_vars

----------------------------------------------------------------------------
(* policy_impacts/simulate_events.py: EventSimulator *)

\* A model that is None.
None == <<>>

\* DataAnalysis.market_analysis: returns, spread changes and rate changes of
\* every row, then dropna().  US_Spread is the column "10Y-2Y Treasury Yield
\* Spread", UK_Spread the column "UK Bond Yield Spread".
MarketData(rows) ==
    LET full == [i \in 1..Len(rows) |->
            [Date |-> rows[i].Date,
             US_Spread |-> rows[i].US_Spread,
             UK_Spread |-> rows[i].UK_Spread,
             US_Bond_Returns |-> PctChange(rows[i].Close_AGG, Shifted(rows, i, "Close_AGG")),
             UK_Bond_Returns |-> PctChange(rows[i].Close_IGLT_L, Shifted(rows, i, "Close_IGLT_L")),
             US_Spread_Change |-> Diff(rows[i].US_Spread, Shifted(rows, i, "US_Spread")),
             UK_Spread_Change |-> Diff(rows[i].UK_Spread, Shifted(rows, i, "UK_Spread")),
             US_Rate_Change |-> Diff(rows[i].Federal_Funds_Rate,
                                     Shifted(rows, i, "Federal_Funds_Rate")),
             UK_Rate_Change |-> Diff(rows[i].IR3TIB01GBM156N,
                                     Shifted(rows, i, "IR3TIB01GBM156N"))]]
    IN  SelectSeq(full, LAMBDA row :
            \A col \in {"US_Bond_Returns", "UK_Bond_Returns", "US_Spread_Change",
                        "UK_Spread_Change", "US_Rate_Change", "UK_Rate_Change"} :
                row[col] # NaN)

\* The regressors of market_analysis, in the order of X.
regressors == <<"US_Spread_Change", "UK_Spread_Change", "US_Rate_Change", "UK_Rate_Change">>

\* sm.add_constant(...) adds no constant column when a regressor has one
\* non-zero value on every row.
RegressorIsConstant(rows) ==
    \E c \in 1..Len(regressors) :
        /\ rows[1][regressors[c]] # <<0, 1>>
        /\ \A i \in 1..Len(rows) : rows[i][regressors[c]] = rows[1][regressors[c]]

\* The columns of X: the constant, when added, and the regressors.
PolicyXColumns(rows) ==
    IF RegressorIsConstant(rows) THEN regressors ELSE <<"const">> \o regressors

\* sm.OLS(y, X).fit().params with y the given returns column: one parameter
\* per column of X.
ParamsOf(rows, returns) ==
    LET cols == PolicyXColumns(rows)
    IN  LeastSquares(
            AsTuple([i \in 1..Len(rows) |->
                AsTuple([c \in 1..Len(cols) |->
                    IF cols[c] = "const" THEN <<1, 1>> ELSE rows[i][cols[c]]])]),
            AsTuple([i \in 1..Len(rows) |-> rows[i][returns]]))

\* market_analysis(): raises when no row is left for the regression.
MarketAnalysis(rows) ==
    LET market == MarketData(rows)
    IN  IF market = <<>>
        THEN [raised |-> "ValueError: zero-size array", data |-> <<>>,
              us_model |-> None, uk_model |-> None]
        ELSE [raised |-> "none", data |-> market,
              us_model |-> ParamsOf(market, "US_Bond_Returns"),
              uk_model |-> ParamsOf(market, "UK_Bond_Returns")]

\* ModelsMissing that never finds a model missing: the guard is skipped.
ModelsFound(us_model, uk_model) == FALSE

\* self.us_model is None or self.uk_model is None
ModelsMissing(us_model, uk_model) == us_model = None \/ uk_model = None

\* The number of days of month m of year y.
DaysInMonth(y, m) ==
    IF m = 2 THEN (IF y % 4 = 0 /\ (y % 100 # 0 \/ y % 400 = 0) THEN 29 ELSE 28)
    ELSE IF m \in {4, 6, 9, 11} THEN 30 ELSE 31

\* pd.date_range(start, periods, freq="ME"): the first `periods` month ends
\* on or after start, looking from the month m of year y that begins on day
\* number first.
RECURSIVE MonthEnds(_, _, _, _, _)
MonthEnds(first, y, m, start, periods) ==
    IF periods = 0 THEN <<>>
    ELSE LET end  == first + DaysInMonth(y, m) - 1
             ny   == IF m = 12 THEN y + 1 ELSE y
             nm   == IF m = 12 THEN 1 ELSE m + 1
         IN  IF end < start
             THEN MonthEnds(end + 1, ny, nm, start, periods)
             ELSE <<end>> \o MonthEnds(end + 1, ny, nm, start, periods - 1)

\* Day number 0 is 2020-01-01.
DateRange(start, periods) == MonthEnds(0, 2020, 1, start, periods)

\* model.predict(X_new)[0]: defined when X_new has as many columns as the
\* model has parameters.
RECURSIVE Dot(_, _)
Dot(params, x) ==
    IF params = <<>> THEN <<0, 1>>
    ELSE RatAdd(RatMul(Head(params), Head(x)), Dot(Tail(params), Tail(x)))

\* Results whose cumulative returns and spread levels do not accumulate.
RECURSIVE PolicyResultsFlat(_, _, _, _, _, _, _)
PolicyResultsFlat(s, monthly_us, monthly_uk, us_spread_chg, uk_spread_chg, X_new, n) ==
    IF n = 0 THEN <<>>
    ELSE LET before == PolicyResultsFlat(s, monthly_us, monthly_uk, us_spread_chg,
                                         uk_spread_chg, X_new, n - 1)
             last   == s.data[Len(s.data)]
             prediction_us_ret == Dot(s.us_model, X_new)
             prediction_uk_ret == Dot(s.uk_model, X_new)
         IN  Append(before,
                 [Month |-> n,
                  US_Rate_Change_Monthly |-> monthly_us,
                  UK_Rate_Change_Monthly |-> monthly_uk,
                  US_Spread_Change |-> us_spread_chg,
                  UK_Spread_Change |-> uk_spread_chg,
                  Predicted_US_Return |-> prediction_us_ret,
                  Predicted_UK_Return |-> prediction_uk_ret,
                  Cum_US_Return |-> prediction_us_ret,
                  Cum_UK_Return |-> prediction_uk_ret,
                  US_Spread_Level |-> RatAdd(last.US_Spread, us_spread_chg),
                  UK_Spread_Level |-> RatAdd(last.UK_Spread, uk_spread_chg)])

\* The list results after the first n months.
RECURSIVE PolicyResultsUpTo(_, _, _, _, _, _, _)
PolicyResultsUpTo(s, monthly_us, monthly_uk, us_spread_chg, uk_spread_chg, X_new, n) ==
    IF n = 0 THEN <<>>
    ELSE LET before == PolicyResultsUpTo(s, monthly_us, monthly_uk, us_spread_chg,
                                         uk_spread_chg, X_new, n - 1)
             last   == s.data[Len(s.data)]
             prev   == IF n = 1
                       THEN [Cum_US_Return |-> <<0, 1>>, Cum_UK_Return |-> <<0, 1>>,
                             US_Spread_Level |-> last.US_Spread,
                             UK_Spread_Level |-> last.UK_Spread]
                       ELSE before[n - 1]
             prediction_us_ret == Dot(s.us_model, X_new)
             prediction_uk_ret == Dot(s.uk_model, X_new)
         IN  Append(before,
                 [Month |-> n,
                  US_Rate_Change_Monthly |-> monthly_us,
                  UK_Rate_Change_Monthly |-> monthly_uk,
                  US_Spread_Change |-> us_spread_chg,
                  UK_Spread_Change |-> uk_spread_chg,
                  Predicted_US_Return |-> prediction_us_ret,
                  Predicted_UK_Return |-> prediction_uk_ret,
                  Cum_US_Return |-> RatAdd(prev.Cum_US_Return, prediction_us_ret),
                  Cum_UK_Return |-> RatAdd(prev.Cum_UK_Return, prediction_uk_ret),
                  US_Spread_Level |-> RatAdd(prev.US_Spread_Level, us_spread_chg),
                  UK_Spread_Level |-> RatAdd(prev.UK_Spread_Level, uk_spread_chg)])

\* The message of the guard of simulate_event.
ModelsNotFitted ==
    "ValueError: Models must be fitted before simulating events. Call fit_model() first."

\* simulate_event(name, total_us_rate_change, total_uk_rate_change, months,
\* spread_impact_factor), months >= 0.  total / months raises for months = 0;
\* an instance without data has no spread column; a model fitted without the
\* constant column cannot predict from the five columns of X_new.
PolicySimulateEvent(s, total_us, total_uk, months, spread_impact_factor) ==
    IF ModelsMissing(s.us_model, s.uk_model)
    THEN [raised |-> ModelsNotFitted, sim_index |-> <<>>, out |-> <<>>]
    ELSE IF months = 0
    THEN [raised |-> "ZeroDivisionError", sim_index |-> <<>>, out |-> <<>>]
    ELSE IF s.data = <<>>
    THEN [raised |-> "KeyError", sim_index |-> <<>>, out |-> <<>>]
    ELSE IF Len(s.us_model) # 5
    THEN [raised |-> "ValueError: shapes not aligned", sim_index |-> <<>>, out |-> <<>>]
    ELSE LET monthly_us == RatDiv(total_us, <<months, 1>>)
             monthly_uk == RatDiv(total_uk, <<months, 1>>)
             us_spread_chg == RatMul(spread_impact_factor, monthly_us)
             uk_spread_chg == RatMul(spread_impact_factor, monthly_uk)
             X_new == <<(<<1, 1>>), us_spread_chg, uk_spread_chg, monthly_us, monthly_uk>>
         IN  [raised |-> "none",
              sim_index |-> DateRange(s.last_date + 1, months),
              out |-> PolicyResultsUpTo(s, monthly_us, monthly_uk, us_spread_chg,
                                        uk_spread_chg, X_new, months)]

\* Input spaces of the policy simulator.
MaxPolRows == 3

PolSpreads == {<<1, 1>>, <<3, 2>>}

PolRates == {<<3, 2>>, <<7, 4>>}

\* The other columns by row.
PolCloseAGG == <<100, 125, 100, 100>>

PolCloseIGLT == <<100, 100, 125, 100>>

PolUKSpread == <<(<<1, 2>>), <<1, 2>>, <<1, 1>>, <<1, 1>>>>

PolUKRate == <<(<<1, 2>>), <<3, 4>>, <<3, 4>>, <<3, 4>>>>

PolFiles ==
    UNION {
        {[i \in 1..n |->
            [Date |-> 30 * i,
             Close_AGG |-> <<PolCloseAGG[i], 1>>,
             Close_IGLT_L |-> <<PolCloseIGLT[i], 1>>,
             US_Spread |-> sr[i][1],
             UK_Spread |-> PolUKSpread[i],
             Federal_Funds_Rate |-> sr[i][2],
             IR3TIB01GBM156N |-> PolUKRate[i]]] :
         sr \in [1..n -> PolSpreads \X PolRates]} : n \in 0..MaxPolRows}

Months == {0, 1, 2, 3}

\* Total US and UK rate changes of the scenarios.
TotalRateChanges == {<<(<<1, 100>>), <<0, 1>>>>, <<(<<-1, 200>>), <<1, 400>>>>}

SpreadImpactFactors == {<<1, 2>>, <<0, 1>>}

\* EventSimulator(path): no data, no model, last_date 2020-01-01.
InitPol ==
    /\ \E file \in PolFiles : \E m \in Months : \E t \in TotalRateChanges :
       \E f \in SpreadImpactFactors :
        pol = [op |-> "__init__", raised |-> "none",
               data_path |-> file,
               data |-> <<>>,
               us_model |-> None, uk_model |-> None,
               last_date |-> 0,
               fit_completed |-> FALSE,
               in_months |-> m, in_total_us |-> t[1], in_total_uk |-> t[2],
               in_factor |-> f,
               sim_index |-> <<>>, out |-> <<>>]
    /\ sim = NoSimulator
    /\ ld = NoLoader
    /\ corp = NoSimulator
    /\ NoShockObject

\* fit_model(): the three attributes are assigned together, when
\* market_analysis returned.
PolicyFitModelCall ==
    /\ pol.op # "none"
    /\ \E r \in {MarketAnalysis(pol.data_path)} :
        pol' = IF r.raised = "none"
               THEN [pol EXCEPT !.op = "fit_model", !.raised = "none",
                                !.data = r.data, !.us_model = r.us_model,
                                !.uk_model = r.uk_model, !.fit_completed = TRUE,
                                !.sim_index = <<>>, !.out = <<>>]
               ELSE [pol EXCEPT !.op = "fit_model", !.raised = r.raised,
                                !.sim_index = <<>>, !.out = <<>>]
    /\ UNCHANGED <<shock_vars, sim, ld, corp>>

\* simulate_event(name, in_total_us, in_total_uk, in_months, in_factor)
PolicySimulateEventCall ==
    /\ pol.op # "none"
    /\ \E r \in {PolicySimulateEvent(pol, pol.in_total_us, pol.in_total_uk,
                                     pol.in_months, pol.in_factor)} :
        pol' = [pol EXCEPT !.op = "simulate_event", !.raised = r.raised,
                           !.sim_index = r.sim_index, !.out = r.out]
    /\ UNCHANGED <<shock_vars, sim, ld, corp>>

NextPol == PolicyFitModelCall \/ PolicySimulateEventCall

SpecPol == InitPol /\ [][NextPol]_vars

----------------------------------------------------------------------------
(* The DataLoader classes: shocks_and_reactions/data_loader.py,
   policy_impacts/data_loader.py, corporate_descisions/data_loader.py *)

\* A frame is [cols, rows]: the column names in order and the rows in index
\* order; a row is [Date, v] with v the value of every column, NaN for a
\* missing one.  The index values of a frame are distinct.
ColumnSet(f) == {f.cols[i] : i \in 1..Len(f.cols)}

FrameDates(f) == {f.rows[i].Date : i \in 1..Len(f.rows)}

\* The value of column c at index value d, NaN when the frame has no row d.
ValueAt(f, d, c) ==
    IF d \in FrameDates(f)
    THEN f.rows[CHOOSE i \in 1..Len(f.rows) : f.rows[i].Date = d].v[c]
    ELSE NaN

\* dataset_1.join(dataset_2, how="outer") followed by sort_index(): one row
\* per index value of either frame, in ascending order.
OuterJoin(dataset_1, dataset_2) ==
    LET index == SortedKeys(FrameDates(dataset_1) \cup FrameDates(dataset_2))
        cols  == dataset_1.cols \o dataset_2.cols
    IN  [cols |-> cols,
         rows |-> [i \in 1..Len(index) |->
             [Date |-> index[i],
              v |-> [c \in ColumnSet(dataset_1) \cup ColumnSet(dataset_2) |->
                        IF c \in ColumnSet(dataset_1)
                        THEN ValueAt(dataset_1, index[i], c)
                        ELSE ValueAt(dataset_2, index[i], c)]]]]

\* ffill() of the first n rows: a missing value takes the last value above it.
RECURSIVE FfillUpTo(_, _)
FfillUpTo(rows, n) ==
    IF n = 0 THEN <<>>
    ELSE LET above == FfillUpTo(rows, n - 1)
         IN  Append(above,
                 [Date |-> rows[n].Date,
                  v |-> [c \in DOMAIN rows[n].v |->
                            IF rows[n].v[c] = NaN /\ n > 1
                            THEN above[n - 1].v[c] ELSE rows[n].v[c]]])

Ffill(f) == [cols |-> f.cols, rows |-> FfillUpTo(f.rows, Len(f.rows))]

\* dropna(): the rows without a missing value.
DropNa(f) ==
    [cols |-> f.cols,
     rows |-> SelectSeq(f.rows, LAMBDA row : \A c \in DOMAIN row.v : row.v[c] # NaN)]

\* dropna(how="all"): the rows with at least one value.
DropNaAll(f) ==
    [cols |-> f.cols,
     rows |-> SelectSeq(f.rows, LAMBDA row : \E c \in DOMAIN row.v : row.v[c] # NaN)]

\* shocks_and_reactions DataLoader._combine_data
CombineData(dataset_1, dataset_2) == DropNa(Ffill(OuterJoin(dataset_1, dataset_2)))

\* policy_impacts DataLoader._combine_data
PolicyCombineData(dataset_1, dataset_2) == DropNaAll(Ffill(OuterJoin(dataset_1, dataset_2)))

\* _combine_data of the loader of the given kind.
CombineDataOf(kind, dataset_1, dataset_2) ==
    IF kind = "policy_impacts"
    THEN PolicyCombineData(dataset_1, dataset_2)
    ELSE CombineData(dataset_1, dataset_2)

\* series.to_frame(name): a frame of one column from a series, a sequence of
\* <<date, value>> in ascending date order.
ToFrame(series, name) ==
    [cols |-> <<name>>,
     rows |-> [i \in 1..Len(series) |->
                  [Date |-> series[i][1], v |-> [c \in {name} |-> series[i][2]]]]]

\* frame.reindex(index): one row per value of index, in its order; missing
\* values where the frame has no such row.
Reindex(f, index) ==
    [cols |-> f.cols,
     rows |-> [i \in 1..Len(index) |->
                  [Date |-> index[i],
                   v |-> [c \in ColumnSet(f) |-> ValueAt(f, index[i], c)]]]]

\* frame.index
FrameIndex(f) == [i \in 1..Len(f.rows) |-> f.rows[i].Date]

\* frame[name] = values: the frame with one more column (or the column
\* replaced), values[i] on row i.
WithColumn(f, name, values) ==
    [cols |-> IF name \in ColumnSet(f) THEN f.cols ELSE Append(f.cols, name),
     rows |-> [i \in 1..Len(f.rows) |->
                  [Date |-> f.rows[i].Date,
                   v |-> [c \in ColumnSet(f) \cup {name} |->
                             IF c = name THEN values[i] ELSE f.rows[i].v[c]]]]]

\* frame[c].pct_change()
PctChangeOf(f, c) ==
    [i \in 1..Len(f.rows) |->
        IF i = 1 THEN NaN ELSE PctChange(f.rows[i].v[c], f.rows[i - 1].v[c])]

\* frame[c].diff()
DiffOf(f, c) ==
    [i \in 1..Len(f.rows) |->
        IF i = 1 THEN NaN ELSE Diff(f.rows[i].v[c], f.rows[i - 1].v[c])]

\* What yf.download returned: None, or a frame (none = FALSE).
NoDownload == [none |-> TRUE, cols |-> <<>>, rows |-> <<>>]

\* NoData that accepts whatever the download returned.
AnyData(yf_data) == FALSE

\* yf_data is None or yf_data.empty
NoData(yf_data) == yf_data.none \/ yf_data.rows = <<>> \/ yf_data.cols = <<>>

\* The frame of a download that returned one.
Downloaded(yf_data) == [cols |-> yf_data.cols, rows |-> yf_data.rows]

\* The outcome of a load_data that raised or returned before saving.
NotSaved(exception) == [raised |-> exception, saved |-> FALSE, csv |-> [cols |-> <<>>, rows |-> <<>>]]

\* The outcome of a load_data that reached to_csv.
Saved(frame) == [raised |-> "none", saved |-> TRUE, csv |-> frame]

\* shocks_and_reactions DataLoader.load_data: fred holds the series DFF and
\* M1SL, yf the download of ^GSPC.  Without the guard of _load_yf_data a None
\* has no index (AttributeError) and an empty frame no column Close (KeyError).
ShocksLoadData(fred, yf) ==
    LET fred_data == CombineData(ToFrame(fred.DFF, "Effective Federal Funds Rate"),
                                 ToFrame(fred.M1SL, "M1 Money Supply"))
    IN  IF NoData(yf["^GSPC"])
        THEN NotSaved("ValueError: No data fetched from Yahoo Finance for ticker ^GSPC")
        ELSE IF yf["^GSPC"].none THEN NotSaved("AttributeError")
        ELSE IF "Close" \notin ColumnSet(yf["^GSPC"]) THEN NotSaved("KeyError")
        ELSE LET yf_data  == Downloaded(yf["^GSPC"])
                 combined == CombineData(Reindex(fred_data, FrameIndex(yf_data)), yf_data)
                 returns  == WithColumn(combined, "SP500_Return",
                                        PctChangeOf(combined, "Close"))
                 changes  == WithColumn(returns, "Rate_Change",
                                        DiffOf(returns, "Effective Federal Funds Rate"))
             IN  Saved(DropNa(changes))

\* columns = [f"{col}_{_clean_ticker(ticker)}" for col in columns]: every
\* column of a download gets the cleaned ticker appended to its name; the
\* values stay with their columns.
Suffixed(f, suffix) ==
    LET name(c) == c \o "_" \o suffix
    IN  [cols |-> [i \in 1..Len(f.cols) |-> name(f.cols[i])],
         rows |-> [i \in 1..Len(f.rows) |->
                      [Date |-> f.rows[i].Date,
                       v |-> [c \in {name(x) : x \in ColumnSet(f)} |->
                                 f.rows[i].v[CHOOSE x \in ColumnSet(f) : name(x) = c]]]]]

\* uk_spread['UK 10-Year Government Bond Yield'] - uk_spread['IR3TIB01GBM156N']
SpreadOf(f) ==
    [i \in 1..Len(f.rows) |->
        Diff(f.rows[i].v["UK 10-Year Government Bond Yield"],
             f.rows[i].v["IR3TIB01GBM156N"])]

\* policy_impacts DataLoader._load_fred_data
PolicyFredData(fred) ==
    LET uk == PolicyCombineData(
                  ToFrame(fred.IR3TIB01GBM156N, "IR3TIB01GBM156N"),
                  ToFrame(fred.IRLTLT01GBM156N, "UK 10-Year Government Bond Yield"))
        uk_spread == WithColumn(uk, "UK Bond Yield Spread", SpreadOf(uk))
    IN  PolicyCombineData(
            PolicyCombineData(ToFrame(fred.T10Y2Y, "10Y-2Y Treasury Yield Spread"),
                              uk_spread),
            ToFrame(fred.FEDFUNDS, "Federal Funds Rate"))

\* policy_impacts DataLoader.load_data: the downloads of AGG and IGLT.L are
\* tested one after the other.
PolicyLoadData(fred, yf) ==
    LET fred_data == PolicyFredData(fred)
    IN  IF NoData(yf["AGG"])
        THEN NotSaved("ValueError: No data fetched from Yahoo Finance for ticker AGG")
        ELSE IF NoData(yf["IGLT.L"])
        THEN NotSaved("ValueError: No data fetched from Yahoo Finance for ticker IGLT.L")
        ELSE IF yf["AGG"].none \/ yf["IGLT.L"].none THEN NotSaved("AttributeError")
        ELSE LET yf_data == PolicyCombineData(Suffixed(Downloaded(yf["AGG"]), "AGG"),
                                              Suffixed(Downloaded(yf["IGLT.L"]), "IGLT_L"))
             IN  Saved(PolicyCombineData(Reindex(fred_data, FrameIndex(yf_data)), yf_data))

(* corporate_descisions DataLoader *)

magnificent_seven_loader == <<"AAPL", "MSFT", "GOOGL", "AMZN", "META", "TSLA", "NVDA">>

\* "2020-01-01" and "2025-12-31" as day numbers.
start_date == 0
end_date == 2191

\* fund_df.resample("B").last().ffill(limit=8)
ffill_limit == 8

\* Monday is 0; day 0 is a Wednesday.
Weekday(d) == (d + 2) % 7

\* The business days from a to b in ascending order.
BusinessDays(a, b) == SortedKeys({d \in a..b : Weekday(d) < 5})

\* The business day whose bin of resample("B") holds day d: d itself, or the
\* Friday before a Saturday or a Sunday.
BinOf(d) == IF Weekday(d) = 5 THEN d - 1 ELSE IF Weekday(d) = 6 THEN d - 2 ELSE d

\* last() of one bin: the value of column c in the last row of the bin that
\* has one, a missing value when no row of the bin has one.
LastOfBin(f, day, c) ==
    LET valid == {j \in 1..Len(f.rows) : BinOf(f.rows[j].Date) = day /\ f.rows[j].v[c] # NaN}
    IN  IF valid = {} THEN NaN
        ELSE f.rows[CHOOSE j \in valid : \A k \in valid : k <= j].v[c]

\* frame.resample("B").last(): one row per business day from the bin of the
\* first date to the bin of the last, each holding the last values of the rows
\* of its bin.
ResampleB(f) ==
    IF f.rows = <<>> THEN f
    ELSE LET index == BusinessDays(BinOf(f.rows[1].Date), BinOf(f.rows[Len(f.rows)].Date))
         IN  [cols |-> f.cols,
              rows |-> [i \in 1..Len(index) |->
                           [Date |-> index[i],
                            v |-> [c \in ColumnSet(f) |-> LastOfBin(f, index[i], c)]]]]

\* ffill(limit=limit): a missing value takes the last value above it when
\* that value is at most limit rows above.
FfillLimit(f, limit) ==
    [cols |-> f.cols,
     rows |-> [n \in 1..Len(f.rows) |->
        [Date |-> f.rows[n].Date,
         v |-> [c \in ColumnSet(f) |->
            LET above == {j \in 1..(n - 1) : f.rows[j].v[c] # NaN}
                last  == CHOOSE j \in above : \A k \in above : k <= j
            IN  IF f.rows[n].v[c] # NaN \/ above = {} THEN f.rows[n].v[c]
                ELSE IF n - last <= limit THEN f.rows[last].v[c]
                ELSE NaN]]]]

\* pd.DataFrame of FedFunds, GDP, Delta_FedFunds and GDP_Growth, over the
\* union of the dates of the two resampled series.
CorporateFredData(fred) ==
    LET fed_funds_q == Ffill(ResampleB(ToFrame(fred.FEDFUNDS, "FedFunds")))
        gdp_q       == Ffill(ResampleB(ToFrame(fred.GDPC1, "GDP")))
        joined == OuterJoin(
                      WithColumn(fed_funds_q, "Delta_FedFunds", DiffOf(fed_funds_q, "FedFunds")),
                      WithColumn(gdp_q, "GDP_Growth", PctChangeOf(gdp_q, "GDP")))
    IN  [cols |-> <<"FedFunds", "GDP", "Delta_FedFunds", "GDP_Growth">>,
         rows |-> joined.rows]

\* The statements of one symbol: raising is TRUE when fetching them raises;
\* balance holds rows [Date, assets, liabilities], cashflow rows [Date, capex],
\* has_capex tells whether the cashflow has a row "Capital Expenditure".
NoStatements == [raising |-> FALSE, has_capex |-> TRUE, balance |-> <<>>, cashflow |-> <<>>]

\* The symbol's statements are skipped by the loop.
Skipped(statements) ==
    statements.raising \/ statements.cashflow = <<>> \/ statements.balance = <<>>

\* fund_df_q of one symbol.
FundDf(symbol, statements) ==
    LET index == SortedKeys({statements.balance[i].Date : i \in 1..Len(statements.balance)})
        at(d) == CHOOSE row \in {statements.balance[i] : i \in 1..Len(statements.balance)} :
                     row.Date = d
        capex(d) == IF \E i \in 1..Len(statements.cashflow) : statements.cashflow[i].Date = d
                    THEN (CHOOSE row \in {statements.cashflow[i] :
                                             i \in 1..Len(statements.cashflow)} :
                              row.Date = d).capex
                    ELSE NaN
        assets == symbol \o "_total_assets"
        liabilities == symbol \o "_total_liabilities"
        fund_df ==
            [cols |-> <<assets, liabilities, symbol \o "_capex", symbol \o "_debt_to_assets">>,
             rows |-> [i \in 1..Len(index) |->
                [Date |-> index[i],
                 v |-> (assets :> at(index[i]).assets)
                       @@ (liabilities :> at(index[i]).liabilities)
                       @@ ((symbol \o "_capex") :> capex(index[i]))
                       @@ ((symbol \o "_debt_to_assets") :>
                              RatDiv(at(index[i]).liabilities, at(index[i]).assets))]]]
    IN  FfillLimit(ResampleB(fund_df), ffill_limit)

\* combined_data after the close columns of the first n symbols.
RECURSIVE WithCloses(_, _, _)
WithCloses(fred_data, stock_prices_q, n) ==
    IF n = 0 THEN fred_data
    ELSE LET combined == WithCloses(fred_data, stock_prices_q, n - 1)
             symbol   == magnificent_seven_loader[n]
         IN  IF symbol \in ColumnSet(stock_prices_q)
             THEN WithColumn(combined, symbol \o "_close",
                      [i \in 1..Len(combined.rows) |->
                          ValueAt(stock_prices_q, combined.rows[i].Date, symbol)])
             ELSE combined

\* combined_data after the outer joins with the statements of the first n
\* symbols that were not skipped.
RECURSIVE WithFundamentals(_, _, _)
WithFundamentals(combined, fundamentals, n) ==
    IF n = 0 THEN combined
    ELSE LET before == WithFundamentals(combined, fundamentals, n - 1)
             symbol == magnificent_seven_loader[n]
         IN  IF Skipped(fundamentals[symbol]) THEN before
             ELSE OuterJoin(before, FundDf(symbol, fundamentals[symbol]))

\* combined_data.loc[start_date:end_date]
LocDates(f, first, last) ==
    [cols |-> f.cols,
     rows |-> SelectSeq(f.rows, LAMBDA row : first <= row.Date /\ row.Date <= last)]

\* corporate_descisions DataLoader.load_data: yf holds the Close columns of
\* the download of the seven tickers.
CorporateLoadData(fred, yf, fundamentals) ==
    LET fred_data == CorporateFredData(fred)
        symbols == {magnificent_seven_loader[i] : i \in 1..Len(magnificent_seven_loader)}
    IN  IF NoData(yf["Close"]) THEN NotSaved("none")
        ELSE IF yf["Close"].none THEN NotSaved("AttributeError")
        ELSE IF yf["Close"].cols = <<>> THEN NotSaved("KeyError")
        ELSE IF \E s \in symbols : ~Skipped(fundamentals[s]) /\ ~fundamentals[s].has_capex
        THEN NotSaved("KeyError")
        ELSE LET stock_prices_q == ResampleB(Downloaded(yf["Close"]))
                 closes == WithCloses(fred_data, stock_prices_q,
                                      Len(magnificent_seven_loader))
                 joined == WithFundamentals(closes, fundamentals,
                                            Len(magnificent_seven_loader))
             IN  Saved(LocDates(joined, start_date, end_date))

(* The loaders as a state machine: ld is one DataLoader object together with
   the combined_data.csv of its data directory. *)

NoFrame == [cols |-> <<>>, rows |-> <<>>]

\* combined_data.csv: absent, or holding a frame.
NoFile == [exists |-> FALSE, frame |-> NoFrame]

LoaderKinds == {"shocks_and_reactions", "policy_impacts", "corporate_descisions"}

\* A download that returned a frame with no row and no column.
EmptyDownload == [none |-> FALSE, cols |-> <<>>, rows |-> <<>>]

\* A download of the given columns on the given days; the columns of day i
\* hold closes[i].
PriceDownload(columns, index, closes) ==
    [none |-> FALSE, cols |-> columns,
     rows |-> [i \in 1..Len(index) |->
                  [Date |-> index[i],
                   v |-> [c \in {columns[k] : k \in 1..Len(columns)} |-> closes[i]]]]]

\* A download of the columns Close and Volume on the given days.
PriceVolumeDownload(index, closes, volumes) ==
    [none |-> FALSE, cols |-> <<"Close", "Volume">>,
     rows |-> [i \in 1..Len(index) |->
                  [Date |-> index[i],
                   v |-> [c \in {"Close", "Volume"} |->
                             IF c = "Close" THEN closes[i] ELSE volumes[i]]]]]

\* What yf.download of one ticker can return.
Downloads ==
    {NoDownload, EmptyDownload,
     PriceVolumeDownload(<<1, 2, 3>>, <<Rat(100, 1), Rat(125, 1), Rat(125, 1)>>,
                         <<Rat(5000, 1), Rat(4000, 1), Rat(5000, 1)>>),
     PriceDownload(<<"Close">>, <<1, 2, 3>>, <<Rat(100, 1), Rat(125, 1), Rat(100, 1)>>),
     PriceDownload(<<"Close">>, <<2, 3, 6>>, <<Rat(100, 1), Rat(100, 1), Rat(125, 1)>>)}

\* What yf.download of the seven tickers can return, as its Close columns.
PanelDownloads ==
    {NoDownload, EmptyDownload,
     PriceDownload(<<"AAPL", "MSFT">>, <<1, 2, 6>>,
                   <<Rat(100, 1), Rat(125, 1), Rat(100, 1)>>),
     PriceDownload(<<"MSFT">>, <<2, 5>>, <<Rat(100, 1), Rat(125, 1)>>)}

\* Daily and monthly series of FRED; a value of a series may be missing.
DailySeries ==
    {<< <<1, Rat(3, 2)>>, <<2, Rat(3, 2)>>, <<3, Rat(7, 4)>>, <<6, Rat(7, 4)>> >>,
     << <<2, Rat(3, 2)>>, <<3, NaN>>, <<6, Rat(7, 4)>> >>}

MonthlySeries ==
    {<< <<1, Rat(200, 1)>> >>, << <<1, Rat(200, 1)>>, <<5, Rat(210, 1)>> >>}

ShocksFred == [DFF : DailySeries, M1SL : MonthlySeries]

PolicyFred ==
    [T10Y2Y : DailySeries, IR3TIB01GBM156N : {<< <<1, Rat(1, 2)>> >>},
     IRLTLT01GBM156N : {<< <<1, Rat(3, 2)>> >>, << <<5, Rat(3, 2)>> >>},
     FEDFUNDS : MonthlySeries]

\* FEDFUNDS as FRED dates it, on the first of the month: 2020-01-01 is
\* day 0, 2020-02-01 is day 31, a Saturday.
FirstOfMonthSeries == << <<0, Rat(31, 20)>>, <<31, Rat(79, 50)>> >>

CorporateFred ==
    [FEDFUNDS : {<< <<1, Rat(3, 2)>>, <<6, Rat(7, 4)>> >>, FirstOfMonthSeries},
     GDPC1 : MonthlySeries]

\* The statements of a symbol that has some; those of the days 8 and 3 have a
\* period that ends on a Saturday (day 3 is 2020-01-04).
SomeStatements ==
    {[raising |-> FALSE, has_capex |-> TRUE,
      balance |-> << [Date |-> 8, assets |-> Rat(500, 1), liabilities |-> Rat(100, 1)],
                     [Date |-> 3, assets |-> Rat(400, 1), liabilities |-> Rat(100, 1)] >>,
      cashflow |-> << [Date |-> 8, capex |-> Rat(-2, 1)], [Date |-> 3, capex |-> Rat(-1, 1)] >>],
     [raising |-> FALSE, has_capex |-> TRUE,
      balance |-> << [Date |-> 12, assets |-> Rat(400, 1), liabilities |-> Rat(100, 1)],
                     [Date |-> -2, assets |-> Rat(300, 1), liabilities |-> Rat(100, 1)] >>,
      cashflow |-> << [Date |-> 12, capex |-> Rat(-10, 1)] >>],
     [raising |-> FALSE, has_capex |-> FALSE,
      balance |-> << [Date |-> 2, assets |-> Rat(400, 1), liabilities |-> Rat(100, 1)] >>,
      cashflow |-> << [Date |-> 2, capex |-> NaN] >>]}

\* The statements of the seven symbols: those of AAPL and MSFT vary.
Fundamentals ==
    {[s \in {magnificent_seven_loader[i] : i \in 1..Len(magnificent_seven_loader)} |->
         IF s = "AAPL" THEN a ELSE IF s = "MSFT" THEN m ELSE NoStatements] :
     a \in SomeStatements \cup {NoStatements, [NoStatements EXCEPT !.raising = TRUE]},
     m \in {NoStatements} \cup {x \in SomeStatements : x.has_capex /\ Len(x.cashflow) = 1}}

\* The frames _combine_data is called with: one column, a row on some of the
\* days 1..3, each value present or missing.
CombineInputs(column) ==
    {[cols |-> <<column>>,
      rows |-> [i \in 1..Len(index) |->
                   [Date |-> index[i],
                    v |-> [c \in {column} |-> IF index[i] \in missing THEN NaN
                                              ELSE Rat(index[i], 1)]]]] :
     index \in {SortedKeys(S) : S \in SUBSET {1, 2, 3}}, missing \in SUBSET {1, 2, 3}}

\* A loader of one of the two classes that have _combine_data, and the two
\* frames the method is about to be called with.
InitCombine ==
    /\ \E kind \in {"shocks_and_reactions", "policy_impacts"} :
       \E dataset_1 \in CombineInputs("A") : \E dataset_2 \in CombineInputs("B") :
        ld = [op |-> "__init__", kind |-> kind, raised |-> "none",
              written |-> FALSE, file |-> NoFile, in_yf |-> <<>>,
              dataset_1 |-> dataset_1, dataset_2 |-> dataset_2, out |-> NoFrame]
    /\ sim = NoSimulator
    /\ pol = NoSimulator
    /\ corp = NoSimulator
    /\ NoShockObject

InitLoad ==
    /\ \E kind \in LoaderKinds :
        ld = [op |-> "__init__", kind |-> kind, raised |-> "none",
              written |-> FALSE, file |-> NoFile, in_yf |-> <<>>,
              dataset_1 |-> NoFrame, dataset_2 |-> NoFrame, out |-> NoFrame]
    /\ sim = NoSimulator
    /\ pol = NoSimulator
    /\ corp = NoSimulator
    /\ NoShockObject

\* The object after a load_data that was given yf and had the outcome r.
AfterLoadData(yf, r) ==
    [ld EXCEPT !.op = "load_data", !.raised = r.raised, !.written = r.saved,
               !.file = IF r.saved THEN [exists |-> TRUE, frame |-> r.csv] ELSE ld.file,
               !.in_yf = yf,
               !.dataset_1 = NoFrame, !.dataset_2 = NoFrame, !.out = NoFrame]

\* _combine_data(dataset_1, dataset_2) of the two loaders that have one.
CombineDataCall ==
    /\ ld.op # "none"
    /\ ld.kind \in {"shocks_and_reactions", "policy_impacts"}
    /\ ld' = [ld EXCEPT !.op = "_combine_data",
                        !.out = CombineDataOf(ld.kind, ld.dataset_1, ld.dataset_2)]
    /\ UNCHANGED <<shock_vars, sim, pol, corp>>

SpecCombine == InitCombine /\ [][CombineDataCall]_vars

ShocksLoadDataCall ==
    /\ ld.op # "none"
    /\ ld.kind = "shocks_and_reactions"
    /\ \E fred \in ShocksFred : \E yf \in [{"^GSPC"} -> Downloads] :
        ld' = AfterLoadData(yf, ShocksLoadData(fred, yf))
    /\ UNCHANGED <<shock_vars, sim, pol, corp>>

PolicyLoadDataCall ==
    /\ ld.op # "none"
    /\ ld.kind = "policy_impacts"
    /\ \E fred \in PolicyFred : \E yf \in [{"AGG", "IGLT.L"} -> Downloads] :
        ld' = AfterLoadData(yf, PolicyLoadData(fred, yf))
    /\ UNCHANGED <<shock_vars, sim, pol, corp>>

CorporateLoadDataCall ==
    /\ ld.op # "none"
    /\ ld.kind = "corporate_descisions"
    /\ \E fred \in CorporateFred : \E yf \in [{"Close"} -> PanelDownloads] :
       \E fundamentals \in Fundamentals :
        ld' = AfterLoadData(yf, CorporateLoadData(fred, yf, fundamentals))
    /\ UNCHANGED <<shock_vars, sim, pol, corp>>

NextLoad == ShocksLoadDataCall \/ PolicyLoadDataCall \/ CorporateLoadDataCall

SpecLoad == InitLoad /\ [][NextLoad]_vars

----------------------------------------------------------------------------
(* corporate_decisions EventSimulator.  self.data is the quarterly panel, one
   row per ticker and quarter end; simulate_event reads its columns Ticker,
   Date and Return. *)

magnificent_seven == <<"AAPL", "MSFT", "GOOGL", "AMZN", "NVDA", "META", "TSLA">>

\* The date of day number day as <<year, month, day of month>>, looking from
\* the month m of year y that begins on day number first.
RECURSIVE YearMonthDay(_, _, _, _)
YearMonthDay(first, y, m, day) ==
    IF day < first + DaysInMonth(y, m) THEN <<y, m, day - first + 1>>
    ELSE YearMonthDay(first + DaysInMonth(y, m),
                      IF m = 12 THEN y + 1 ELSE y, IF m = 12 THEN 1 ELSE m + 1, day)

\* The day number of the first day of month m of year y.
RECURSIVE MonthStart(_, _)
MonthStart(y, m) ==
    IF y = 2020 /\ m = 1 THEN 0
    ELSE LET py == IF m = 1 THEN y - 1 ELSE y
             pm == IF m = 1 THEN 12 ELSE m - 1
         IN  MonthStart(py, pm) + DaysInMonth(py, pm)

\* pd.Timestamp(day) + pd.DateOffset(months=k): the same day of the month k
\* months later, or the last day of that month when it is shorter.
AddMonths(day, k) ==
    LET date == YearMonthDay(0, 2020, 1, day)
        months == date[2] - 1 + k
        y == date[1] + (months \div 12)
        m == (months % 12) + 1
        d == IF date[3] > DaysInMonth(y, m) THEN DaysInMonth(y, m) ELSE date[3]
    IN  MonthStart(y, m) + d - 1

\* params.get(name, default)
ParamsGet(params, name, default) ==
    IF name \in DOMAIN params THEN params[name] ELSE default

\* _extract_coefficients()
ExtractCoefficients(params) ==
    [coef_delta_fedfunds |-> ParamsGet(params, "Delta_FedFunds", Rat(-5, 100)),
     coef_gdp_growth     |-> ParamsGet(params, "GDP_Growth", Rat(5, 10)),
     coef_return         |-> ParamsGet(params, "Return", Rat(1, 10)),
     intercept           |-> ParamsGet(params, "Intercept", Rat(2, 100))]

RECURSIVE RatSum(_)
RatSum(values) ==
    IF values = <<>> THEN <<0, 1>> ELSE RatAdd(Head(values), RatSum(Tail(values)))

\* The square root of a rational whose numerator and denominator are squares
\* (the root rounded down on each otherwise).
SqrtRat(x) ==
    Rat(CHOOSE r \in 0..x[1] : r * r <= x[1] /\ (r + 1) * (r + 1) > x[1],
        CHOOSE r \in 1..x[2] : r * r <= x[2] /\ (r + 1) * (r + 1) > x[2])

\* self.data["Return"].std(): the sample standard deviation of the values
\* that are not missing, NaN when there are fewer than two.
ReturnStd(rows) ==
    LET present == SelectSeq([i \in 1..Len(rows) |-> rows[i].Return],
                             LAMBDA x : x # NaN)
        n == Len(present)
        mean == RatDiv(RatSum(present), <<n, 1>>)
        squares == [i \in 1..n |-> RatMul(RatSub(present[i], mean),
                                          RatSub(present[i], mean))]
    IN  IF n < 2 THEN NaN
        ELSE SqrtRat(RatDiv(RatSum(squares), <<n - 1, 1>>))

\* A seed that leaves out the ticker.
SeedOfQuarter(q, ticker_hash) == 42 + q

\* 42 + q + hash(ticker) % 1000, the remainder taking the sign of 1000.
Seed(q, ticker_hash) == 42 + q + (ticker_hash % 1000)

\* The first deviate np.random.normal(0, 1) returns after np.random.seed(seed)
\* (the Mersenne Twister seeded with seed, then the polar method), in
\* thousandths rounded to the nearest, for the seeds 42, 43, ... in turn.
FirstDeviates ==
    <<
      497, 257, -751, 26, 585, -848, -994, -1043, -1560, -291, 519, 206,
      -1852, -1624, -1038, -131, -760, -1669, -922, -431, -12, -2139, 1100, -834,
      1416, 1129, -944, 916, 851, -431, 319, 577, 608, -710, 940, 224,
      122, -3316, 1900, -1360, 841, 849, -132, 177, -596, 372, 107, -1694,
      -224, -606, 230, 1630, 743, -664, 70, -1751, 474, -142, -1750, 2707,
      1668, -1249, -418, -245, 2165, 494, -1027, -188, 329, -1134, 1478, -150,
      -22, 622, -1492, -1828, 115, -8, 147, -212, 485, -1086, 288, -699,
      -662, -572, -400, -1629, -428, 450, -548, -1029, -224, -1265, -156, 1091,
      840, 1648, -467, 45, 130, -833, -1299, -829, 2396, 1396, -1086, 102,
      -231, -637, -80, 97, 2312, 624, 585, 382, 1395, -609, -497, -172,
      1125, -267, -1376, 406, 871, -1292, 529, 652, 34, 796, 1156, 273,
      949, -635, -1194, 1496, -559, -68, -883, -1012, 264, -106, 9, 45,
      1961, 1368, 1475, -1883, 710, -1651, -682, 1685, 1467, 970, 719, 329,
      468, 1108, -1451, 317, -736, -350, -179, 71, -562, -2294, 108, -448,
      -299, 699, 229, 135, -140, -37, -1032, 140, -910, -571, -1324, 523,
      1963, 535, -2734, 310, -296, 220, 1271, 261, 873, 418, -1167, 881,
      819, 41, 951, 830, -104, -762, -582, 1274, -358, 633, -563, -233,
      874, 744, -152, 1428, -700, -788, -11, 872, 2244, -1513, 104, 1357,
      244, -633, -142, -67, 1515, 1519, -721, 1930, -437, 408, 455, -598,
      952, -1401, 512, 850, 721, 1555, 8, -2048, 1713, -211, -383, -860,
      -1319, -1674, 239, 1165, -414, 445, 1752, 183, -939, 290, -688, 569,
      -855, -1516, 1087, 261, 679, -670, -1485, 987, 1091, -842, 1204, 194,
      -119, -798, 683, 595, 535, -2197, -401, 185, 166, -1473, 525, 1084,
      -1768, 178, -987, 173, -1072, 62, 23, 1831, 1175, 1716, -806, -1913,
      -1354, -919, 115, 1717, -32, 466, 929, -447, 163, -1074, -2042, 286,
      88, 212, 1071, 1469, -44, -913, -745, -1588, 1697, -1079, 173, -1629,
      238, -273, -1583, -956, -876, 367, 705, 331, -12, 315, -887, 168,
      -160, -197, 194, -1320, -1421, 780, -549, 731, -122, -51, 1308, 57,
      -574, -459, 602, -1421, -783, -1394, -697, -209, -407, -1336, 53, 322,
      147, 1366, 647, -367, 3167, -1365, -926, -380, -1811, 1496, -1131, -876,
      -34, 323, -1183, -1059, 85, 13, 1279, 280, 304, 365, 81, -1149,
      76, -392, -1369, 77, -1056, 860, -485, 1006, -690, 280, -147, -808,
      -236, 19, 199, -1417, 474, -39, 187, -821, -1358, -885, 782, -2327,
      -393, 1139, -320, -81, -1263, 437, 357, -567, -468, -757, 1286, 1491,
      590, 690, -182, 56, 1205, -1781, -668, -548, -384, 761, 351, 385,
      683, 435, -961, 406, -1592, 260, 106, -547, 51, -1748, 1111, 78,
      1043, -2151, -1085, 154, 75, -1991, -375, -835, 877, 1163, 1694, -267,
      -161, -1271, 2183, 1456, -1062, 727, 2061, -1177, -1062, 125, -106, 185,
      1744, 134, -377, 64, 9, -30, -551, -461, -431, -457, 728, -809,
      -709, 815, -192, -720, 567, 3157, 597, -256, 828, 1542, -1411, 587,
      388, 905, -1432, -665, -19, 534, -950, 625, -254, -1044, 1562, 256,
      576, 1318, 16, -55, 572, -21, 47, 803, 216, -516, -1135, -1304,
      -66, -406, -1751, -135, 1301, -392, -154, -291, 1817, 148, -533, 268,
      -251, -2096, -472, -277, -1240, -341, -776, -1047, -236, 213, 971, -374,
      986, -530, -2994, 1287, 1136, -1333, 710, 419, -362, 813, -293, 477,
      59, 683, -837, 947, 575, 1183, -219, 1109, -275, -586, -940, 315,
      580, -2769, 1628, 250, 632, -976, 45, 332, -1010, 2275, -816, 6,
      769, -271, -1020, -456, -615, -604, -13, 525, 366, -833, 249, -839,
      1115, 553, 477, -1005, 844, 936, -579, -742, 31, -482, 138, -472,
      -13, -1391, -203, -574, -335, 392, -738, 2200, 1661, 1534, -1486, 211,
      -1746, -1431, -1539, 564, -923, -1218, -698, 435, -363, 1148, 642, 396,
      1662, 624, -1202, -235, 1151, 1620, -1020, 39, 2365, -2203, -1159, -2012,
      824, -1417, -192, 1687, -397, -670, 534, 37, 993, 2458, -181, -761,
      2726, 1147, 1635, 374, -1803, -681, -545, 1530, -216, 196, -1117, 963,
      1288, 54, 42, 414, 75, 883, 357, 234, -197, 199, -277, 302,
      -476, -481, 277, 754, -2360, -450, -447, 272, 450, 1953, -723, 1745,
      -2109, -1626, -1294, 1287, 396, 1221, 1612, -155, 54, -49, 340, 1062,
      -162, 859, 316, 1446, -1086, 599, -1950, -916, -651, -81, 1357, -268,
      -1270, 1449, -1173, 949, -1849, -843, -454, -881, 820, -1869, -46, -300,
      73, -324, 41, -934, -300, 34, 437, 1843, 191, 1741, -381, -619,
      -918, -648, -1212, -2615, -458, 999, 1517, 497, -1167, -1090, -140, 37,
      358, -1359, -588, -468, 195, 502, 754, 852, -95, -575, 959, 138,
      -799, 1610, 429, -1108, 1047, -275, -73, -695, 1222, -204, 68, 671,
      -901, -590, -200, -1871, 2528, -525, -689, 74, 510, -237, 136, 58,
      130, 444, 2488, 1720, 557, 361, -773, -1706, 548, 689, 84, -2819,
      -645, 128, -1540, 897, -6, -1125, -1542, -32, 478, -1521, -432, 403,
      -1260, 886, -61, -222, 880, 1110, -1236, 1076, 1424, -797, 565, -296,
      -121, 176, -1856, -1933, -1808, 1192, 284, -450, 1365, 519, 828, 1463,
      -2860, -295, 1028, 855, -1011, -508, 84, 325, 392, -154, -530, -365,
      2221, -977, -499, 983, -203, -427, -653, 921, 402, 1113, -398, 1892,
      -482, -239, 1741, 71, -71, -1606, -176, 1319, -953, -2250, -11, -1979,
      690, 732, 2109, 676, 572, -781, -1790, -531, 504, 1069, 489, 224,
      1375, -166, 978, -768, 885, -425, -214, 445, 1055, 613, 551, -23,
      365, -1258, 601, 96, -1379, -1317, 1938, 729, 467, -966, 1663, -988,
      30, 109, -2778, -349, 747, 603, -409, -391, -223, 0, -500, 351,
      506, 843, 711, 1508, -592, 185, -756, -376, -191, -593, 1032, 67,
      -4, 592, 535, -134, -49, 2373, -529, -313, -998, 1044, -1349, 302,
      -1211, 1851, -2001, -878, -266, 1240, -1864, -115, -904, 309, 2, -147,
      -254, -308, -1213, -2412, -467, 229, 596, -700, 910, -1686, 367, 1028,
      -168, -223, 131, -677, 1557, -676, -613, 872, 118, 127, -804, -1086,
      -113, -1321, 594, -557, -835, 1406, 662, -1109, -1175, -1154, 778, -654,
      759, -976, 501, 2097, -135, -754, -650, 723, -1015, 225, 2124, 1624,
      999, 235, -620, -100, -2234, -825, 1636, 2604, -202, -3253, -205, 1488,
      927, 1467, -93, 50, -853, 571, -275, 223, 370, -330, 1556, 647,
      -224, -827 >>

\* The first standard normal deviate of the generator seeded with seed, to
\* three decimals: a fixed function of the seed.
StandardNormal(seed) == Rat(FirstDeviates[seed - 41], 1000)

\* np.random.seed(seed) followed by np.random.normal(loc, scale)
SeededNormal(seed, loc, scale) ==
    IF scale = NaN THEN NaN ELSE RatAdd(loc, RatMul(scale, StandardNormal(seed)))

\* intercept + coef_delta_fedfunds * delta_fedfunds
\*   + coef_gdp_growth * gdp_growth + coef_return * simulated_return
PredictedCapexGrowth(s, delta_fedfunds, gdp_growth, simulated_return) ==
    IF simulated_return = NaN THEN NaN
    ELSE RatAdd(RatAdd(RatAdd(s.coef.intercept,
                              RatMul(s.coef.coef_delta_fedfunds, delta_fedfunds)),
                       RatMul(s.coef.coef_gdp_growth, gdp_growth)),
                RatMul(s.coef.coef_return, simulated_return))

\* A simulation that skips no ticker.
AlwaysHistory(rows, ticker) == FALSE

\* ticker_data.empty
NoHistory(rows, ticker) == ~\E i \in 1..Len(rows) : rows[i].Ticker = ticker

\* The state of the two loops of simulate_event after n passes of the inner
\* loop, pass n being ticker ((n - 1) % 7) + 1 of quarter ((n - 1) \div 7) + 1:
\* the rows appended, the seeds used and ticker_cumulative.
RECURSIVE CorporateLoop(_, _, _, _, _)
CorporateLoop(s, event_type, rate_change_per_quarter, gdp_growth_assumption, n) ==
    IF n = 0
    THEN [results |-> <<>>, seeds |-> <<>>,
          ticker_cumulative |->
              [t \in {magnificent_seven[i] : i \in 1..Len(magnificent_seven)} |-> <<1, 1>>]]
    ELSE LET before == CorporateLoop(s, event_type, rate_change_per_quarter,
                                     gdp_growth_assumption, n - 1)
             q      == ((n - 1) \div Len(magnificent_seven)) + 1
             ticker == magnificent_seven[((n - 1) % Len(magnificent_seven)) + 1]
             seed   == Seed(q, s.hash[ticker])
             simulated_return == SeededNormal(seed, Rat(2, 100), ReturnStd(s.data))
             predicted_capex_growth ==
                 PredictedCapexGrowth(s, rate_change_per_quarter, gdp_growth_assumption,
                                      simulated_return)
             cumulative ==
                 IF predicted_capex_growth = NaN \/ before.ticker_cumulative[ticker] = NaN
                 THEN NaN
                 ELSE RatMul(before.ticker_cumulative[ticker],
                             RatAdd(<<1, 1>>, predicted_capex_growth))
         IN  IF NoHistory(s.data, ticker) THEN before
             ELSE [results |-> Append(before.results,
                       [Ticker |-> ticker,
                        Quarter |-> q,
                        Date |-> AddMonths(s.last_date, 3 * q),
                        Event_Type |-> event_type,
                        Delta_FedFunds |-> rate_change_per_quarter,
                        GDP_Growth |-> gdp_growth_assumption,
                        Simulated_Return |-> simulated_return,
                        Predicted_Capex_Growth |-> predicted_capex_growth,
                        Cumulative_Capex_Change |->
                            IF cumulative = NaN THEN NaN
                            ELSE RatSub(cumulative, <<1, 1>>)]),
                   seeds |-> Append(before.seeds,
                       [Ticker |-> ticker, Quarter |-> q, seed |-> seed]),
                   ticker_cumulative |->
                       [before.ticker_cumulative EXCEPT ![ticker] = cumulative]]

\* simulate_event(event_type, quarters, rate_change_per_quarter,
\* gdp_growth_assumption): range(1, quarters + 1) is empty for quarters <= 0.
CorporateSimulateEvent(s, event_type, quarters, rate_change_per_quarter, gdp_growth_assumption) ==
    CorporateLoop(s, event_type, rate_change_per_quarter, gdp_growth_assumption,
                  (IF quarters < 0 THEN 0 ELSE quarters) * Len(magnificent_seven))

\* Input spaces of the corporate simulator.  The panels: the quarter ends of
\* 2020 as day numbers, returns whose sample standard deviation is 1/5.
QuarterEnds == <<90, 181, 273>>

PanelRow(ticker, k, return) == [Ticker |-> ticker, Date |-> QuarterEnds[k], Return |-> return]

Panels ==
    {<<PanelRow("AAPL", 1, Rat(-3, 10)), PanelRow("AAPL", 2, Rat(0, 1)),
       PanelRow("AAPL", 3, Rat(3, 10)), PanelRow("MSFT", 1, Rat(-1, 10)),
       PanelRow("MSFT", 2, Rat(0, 1)), PanelRow("MSFT", 3, Rat(1, 10))>>,
     <<PanelRow("AAPL", 1, Rat(-3, 10)), PanelRow("AAPL", 2, Rat(3, 10)),
       PanelRow("MSFT", 1, Rat(0, 1)), PanelRow("MSFT", 2, Rat(0, 1)),
       PanelRow("TSLA", 1, Rat(-1, 10)), PanelRow("TSLA", 2, Rat(1, 10)),
       PanelRow("TSLA", 3, NaN)>>,
     <<PanelRow("MSFT", 1, Rat(1, 10)), PanelRow("MSFT", 2, Rat(1, 10)),
       PanelRow("TSLA", 1, Rat(1, 10)), PanelRow("TSLA", 2, Rat(1, 10))>>}

\* The tickers of the panels.
PanelTickers == {"AAPL", "MSFT", "TSLA"}

\* hash(ticker) of the tickers of the panels in one interpreter: str hashes
\* are salted per process, so each process has its own.
TickerHashes ==
    {[t \in {magnificent_seven[i] : i \in 1..Len(magnificent_seven)} |->
         IF t \in PanelTickers THEN h[t] ELSE 0] :
     h \in [PanelTickers -> {-999, 0}]}

\* The parameters of the fitted panel regression.
PanelParams ==
    {[Intercept |-> Rat(2, 100), Delta_FedFunds |-> Rat(-5, 100),
      GDP_Growth |-> Rat(1, 2), Return |-> Rat(1, 2)],
     [Intercept |-> Rat(0, 1), Delta_FedFunds |-> Rat(1, 10),
      GDP_Growth |-> Rat(0, 1), Return |-> Rat(-1, 2)]}

Quarters == {0, 1, 2}

RateChangesPerQuarter == {Rat(0, 1), Rat(25, 100)}

\* max of the Date column
MaxDate(rows) ==
    CHOOSE d \in {rows[i].Date : i \in 1..Len(rows)} :
        \A i \in 1..Len(rows) : rows[i].Date <= d

\* EventSimulator(data_directory): __init__ reads the panel, fits the panel
\* regression, extracts the coefficients and takes the last date.  The
\* fields seeds, prev_out, prev_seeds and runs record the seeds of the last
\* simulate_event, the run before it, and how many runs there were (up to 2).
InitCorp ==
    /\ \E panel \in Panels : \E params \in PanelParams : \E h \in TickerHashes :
       \E q \in Quarters : \E rate \in RateChangesPerQuarter :
        corp = [op |-> "__init__", data |-> panel,
                coef |-> ExtractCoefficients(params),
                last_date |-> MaxDate(panel),
                hash |-> h,
                in_quarters |-> q, in_rate |-> rate,
                out |-> <<>>, seeds |-> <<>>,
                prev_out |-> <<>>, prev_seeds |-> <<>>, runs |-> 0]
    /\ sim = NoSimulator
    /\ pol = NoSimulator
    /\ ld = NoLoader
    /\ NoShockObject

\* simulate_event("tightening", in_quarters, in_rate, 0.005)
CorporateSimulateEventCall ==
    /\ corp.op # "none"
    /\ \E r \in {CorporateSimulateEvent(corp, "tightening", corp.in_quarters,
                                        corp.in_rate, Rat(5, 1000))} :
        corp' = [corp EXCEPT !.op = "simulate_event",
                             !.out = r.results, !.seeds = r.seeds,
                             !.prev_out = corp.out, !.prev_seeds = corp.seeds,
                             !.runs = IF corp.runs = 0 THEN 1 ELSE 2]
    /\ UNCHANGED <<shock_vars, sim, pol, ld>>

\* The program is started again on the same files: the new interpreter has
\* its own str hashes, and __init__ reads the same panel and fits the same
\* model.
NewProcess ==
    /\ corp.op # "none"
    /\ \E h \in TickerHashes :
        corp' = [corp EXCEPT !.op = "__init__", !.hash = h]
    /\ UNCHANGED <<shock_vars, sim, pol, ld>>

NextCorp == CorporateSimulateEventCall \/ NewProcess

SpecCorp == InitCorp /\ [][NextCorp]_vars

----------------------------------------------------------------------------
(* The state machine *)

\* IdentifyShockEvents(series): __init__ stores the series in self.data and
\* calls _detect_shocks(fomc_dates, threshold=10); when that call raises, so
\* does the constructor and no object is obtained.  in_dates and
\* in_threshold are the arguments of the direct calls of _detect_shocks made
\* on the object.
InitOver(inputs) ==
    /\ \E series \in inputs :
       \E r \in {DetectShocks(series, fomc_dates, Fixed(default_threshold))} :
           /\ data = r.data
           /\ df = r.df
           /\ event_windows = r.event_windows
           /\ events_df = r.events_df
           /\ raised = r.raised
    /\ in_threshold \in Thresholds
    /\ op = "__init__"
    /\ dates = fomc_dates
    /\ threshold = Fixed(default_threshold)
    /\ vis = <<>>
    /\ avg_cum = <<>>
    /\ avg_by_type = <<>>
    /\ sim = NoSimulator
    /\ pol = NoSimulator
    /\ ld = NoLoader
    /\ corp = NoSimulator

Init ==
    /\ InitOver(AllSeries)
    /\ in_dates \in Calendars(MaxCal)

\* The series of the documented scenario: rows 2022-01-01..2022-01-05 with
\* returns 0.01, -0.02, 0.03, 0.0, 0.01, and any rate changes.
ScenarioDays == <<731, 732, 733, 734, 735>>

ScenarioReturns == <<1, -2, 3, 0, 1>>

ScenarioSeries ==
    {[i \in 1..Len(ScenarioDays) |->
        [Date |-> ScenarioDays[i], SP500_Return |-> ScenarioReturns[i],
         Rate_Change |-> rc[i]]] :
     rc \in [1..Len(ScenarioDays) -> RateChanges]}

\* The calendar of the documented scenario: the single date 2022-01-03.
ScenarioCalendar == <<733>>

\* An object built on a scenario series, to be called with the scenario
\* calendar.
InitScenario ==
    /\ InitOver(ScenarioSeries)
    /\ in_dates = ScenarioCalendar

\* The constructor returned: there is an object to call.
Constructed == ~(op = "__init__" /\ raised # "none")

\* A call _detect_shocks(in_dates, in_threshold).
DetectShocksCall ==
    /\ Constructed
    /\ \E r \in {DetectShocks(data, in_dates, in_threshold)} :
        /\ op' = "_detect_shocks"
        /\ dates' = in_dates
        /\ threshold' = in_threshold
        /\ df' = r.df
        /\ event_windows' = r.event_windows
        /\ events_df' = r.events_df
        /\ raised' = r.raised
        /\ vis' = <<>>
        /\ avg_cum' = <<>>
        /\ avg_by_type' = <<>>
        /\ data' = r.data
        /\ UNCHANGED <<in_dates, in_threshold, sim, pol, ld, corp>>

\* identify_shock_events(): _detect_shocks(self.data.index, threshold=10),
\* then _fit_shocks(df), then _visualise_shocks(shock_events).
IdentifyShockEventsCall ==
    /\ Constructed
    /\ \E r \in {DetectShocks(data, Index(data), Fixed(default_threshold))} :
      \E fit \in {IF r.raised = "none" THEN FitShocks(r.df) ELSE r.raised} :
      \E v \in {VisualiseShocks(IF fit = "none" THEN r.events_df ELSE <<>>)} :
        /\ op' = "identify_shock_events"
        /\ dates' = Index(data)
        /\ threshold' = Fixed(default_threshold)
        /\ df' = r.df
        /\ event_windows' = r.event_windows
        /\ events_df' = r.events_df
        /\ raised' = fit
        /\ vis' = IF fit = "none" THEN r.events_df ELSE <<>>
        /\ avg_cum' = v.avg_cum
        /\ avg_by_type' = v.avg_by_type
        /\ data' = r.data
        /\ UNCHANGED <<in_dates, in_threshold, sim, pol, ld, corp>>

Next == DetectShocksCall \/ IdentifyShockEventsCall

Spec == Init /\ [][Next]_vars

\* The same operations on the object of the documented scenario.
SpecScenario == InitScenario /\ [][Next]_vars

\* A call _visualise_shocks(shock_events) with the window frame a direct call
\* of _detect_shocks returned.
VisualiseShocksCall ==
    /\ op = "_detect_shocks"
    /\ raised = "none"
    /\ \E v \in {VisualiseShocks(events_df)} :
        /\ op' = "_visualise_shocks"
        /\ vis' = events_df
        /\ avg_cum' = v.avg_cum
        /\ avg_by_type' = v.avg_by_type
        /\ UNCHANGED <<data, in_dates, in_threshold, dates, threshold, df,
                       event_windows, events_df, raised, sim, pol, ld, corp>>

\* The direct use of the two steps: windows from _detect_shocks, averaged by
\* _visualise_shocks.
NextVis == DetectShocksCall \/ VisualiseShocksCall

SpecVis == Init /\ [][NextVis]_vars

----------------------------------------------------------------------------
(* Properties *)

\* Equality of two fractions whose denominators are powers of 100.
FracEq(a, b) ==
    IF a[2] <= b[2] THEN a[1] * (b[2] \div a[2]) = b[1]
    ELSE b[1] * (a[2] \div b[2]) = a[1]

\* The rows of self.data dated within 10 days before and 20 days after d.
InRange(d) ==
    {k \in 1..Len(data) : d - 10 <= data[k].Date /\ data[k].Date <= d + 20}

\* The rows of events_df that belong to the window of announcement date d.
RowsOf(d) == {j \in 1..Len(events_df) : events_df[j].Event_Date = d}

\* The row of self.data dated d, if any.
SeriesRowsAt(d) == {k \in 1..Len(data) : data[k].Date = d}

\* The product of (1 + return) over the rows S of self.data, as a fraction.
RECURSIVE ProductOfReturns(_)
ProductOfReturns(S) ==
    IF S = {} THEN <<1, 1>>
    ELSE LET k == CHOOSE x \in S : TRUE
             p == ProductOfReturns(S \ {k})
         IN  <<p[1] * (100 + data[k].SP500_Return), p[2] * 100>>

\* The claimed label of a rate change of r basis points under threshold t.
ClaimedLabel(r, t, label) ==
    /\ (label = "Hike") <=> (r >= t)
    /\ (label = "Cut") <=> (r <= -t)
    /\ (label = "No Shock") <=> (~(r >= t) /\ ~(r <= -t))

\* C1 as stated: for every rate change r in basis points and every threshold
\* t, a day is labelled Hike iff r >= t, Cut iff r <= -t, and No Shock in
\* every other case.
C1_AnyThreshold ==
    \A i \in 1..Len(df) :
        ClaimedLabel(data[i].Rate_Change * 100, threshold, df[i].Shock_Type)

\* C1 amended: for every rate change r in basis points and every threshold
\* t > 0, a day is labelled Hike iff r >= t, Cut iff r <= -t, and No Shock in
\* every other case; r = t gives Hike and r = -t gives Cut.
C1_ShockClassification ==
    threshold > 0 =>
        \A i \in 1..Len(df) :
            ClaimedLabel(data[i].Rate_Change * 100, threshold, df[i].Shock_Type)

\* C1 witness: a call with a positive threshold tagged one day whose rate
\* change equals the threshold, one that equals its negation, and one between.
C1_Witness ==
    /\ op = "_detect_shocks"
    /\ threshold > 0
    /\ \E i, j, k \in 1..Len(df) :
        /\ data[i].Rate_Change * 100 = threshold /\ df[i].Shock_Type = "Hike"
        /\ data[j].Rate_Change * 100 = -threshold /\ df[j].Shock_Type = "Cut"
        /\ Abs(data[k].Rate_Change * 100) < threshold
        /\ df[k].Shock_Type = "No Shock"

\* C2: for every calendar date d, the rows of d's event window are exactly
\* the series rows dated from d - 10 days to d + 20 days, both ends included:
\* none in that range is missing, none outside it is included.
C2_WindowRows ==
    \A i \in 1..Len(dates) :
        LET d == dates[i]
        IN  /\ {events_df[j].Date : j \in RowsOf(d)} =
                   {data[k].Date : k \in InRange(d)}
            /\ Cardinality(RowsOf(d)) = Cardinality(InRange(d))

\* C2 witness: a window holds a row 10 days before and a row 20 days after
\* its announcement date, while a row of the series 21 days after is left out.
C2_Witness ==
    /\ op = "_detect_shocks"
    /\ \E w \in 1..Len(event_windows) :
        LET d == event_windows[w][1].Event_Date
        IN  /\ \E k \in 1..Len(event_windows[w]) : event_windows[w][k].Date = d - 10
            /\ \E k \in 1..Len(event_windows[w]) : event_windows[w][k].Date = d + 20
            /\ SeriesRowsAt(d + 21) # {}

\* C3: in every event window every row carries the same shock classification,
\* the one of the announcement day's rate change (the series row dated d),
\* not the classification of the row's own rate change.
C3_WindowClassification ==
    \A w \in 1..Len(event_windows) :
        \A k \in 1..Len(event_windows[w]) :
            /\ event_windows[w][k].Shock_Type = event_windows[w][1].Shock_Type
            /\ \A i \in 1..Len(df) :
                df[i].Date = event_windows[w][k].Event_Date =>
                    event_windows[w][k].Shock_Type = df[i].Shock_Type

\* C4 as stated: the cumulative return of the first row of every event window
\* is exactly 0.
C4_FirstRowZero ==
    \A w \in 1..Len(event_windows) : event_windows[w][1].Cum_Return_pct[1] = 0

\* C4 amended: the cumulative return of the first row of every event window
\* is that row's own return, (1 + return) - 1, as a percentage.
C4_FirstRowCumReturn ==
    \A w \in 1..Len(event_windows) :
        \E k \in SeriesRowsAt(event_windows[w][1].Date) :
            FracEq(event_windows[w][1].Cum_Return_pct,
                   <<data[k].SP500_Return, 1>>)

\* C4 witness: a call returned a window whose first row has a return other
\* than 0.
C4_Witness ==
    /\ op = "_detect_shocks"
    /\ \E w \in 1..Len(event_windows) :
        \E k \in SeriesRowsAt(event_windows[w][1].Date) :
            /\ data[k].SP500_Return # 0
            /\ event_windows[w][1].SP500_Return_pct = data[k].SP500_Return * 100

\* C5: in every event window the cumulative return of the i-th row is the
\* product of (1 + return) over the window's rows up to the i-th, minus 1,
\* times 100, taken over that window's rows only: no series row dated before
\* the window's first row enters it.
C5_CumulativeReturn ==
    \A w \in 1..Len(event_windows) :
        \A i \in 1..Len(event_windows[w]) :
            LET row  == event_windows[w][i]
                upto == {k \in InRange(row.Event_Date) : data[k].Date <= row.Date}
                prod == ProductOfReturns(upto)
            IN  FracEq(row.Cum_Return_pct, <<(prod[1] - prod[2]) * 100, prod[2]>>)

\* C5 witness: a window of at least two rows whose first row is not the first
\* row of the series.
C5_Witness ==
    /\ op = "_detect_shocks"
    /\ \E w \in 1..Len(event_windows) :
        /\ Len(event_windows[w]) >= 2
        /\ data[1].Date < event_windows[w][1].Date

\* C6: no window of the output has zero rows: a calendar date with no series
\* row in its range contributes nothing to the output, and every Event_Date
\* of the output has at least one row.
C6_NoEmptyWindow ==
    /\ \A w \in 1..Len(event_windows) : Len(event_windows[w]) >= 1
    /\ \A i \in 1..Len(dates) : InRange(dates[i]) = {} => RowsOf(dates[i]) = {}
    /\ Cardinality({i \in 1..Len(dates) : InRange(dates[i]) # {}}) = Len(event_windows)

\* C6 witness: a call returned windows for a calendar of which one date has
\* no series row in its range.
C6_Witness ==
    /\ op = "_detect_shocks"
    /\ raised = "none"
    /\ Len(event_windows) >= 1
    /\ \E i \in 1..Len(dates) : InRange(dates[i]) = {}

\* C7: in every event window each row's offset is its date minus the
\* announcement date in whole days, lies in -10..20, and the offsets do not
\* decrease from one row to the next.
C7_Offsets ==
    \A w \in 1..Len(event_windows) :
        \A k \in 1..Len(event_windows[w]) :
            LET row == event_windows[w][k]
            IN  /\ IsIn(row.Event_Date, dates)
                /\ row.Days_From_Event = row.Date - row.Event_Date
                /\ row.Days_From_Event \in -10..20
                /\ k > 1 => event_windows[w][k - 1].Days_From_Event <= row.Days_From_Event

\* C7 witness: a window of three rows with a negative, a zero and a positive
\* offset.
C7_Witness ==
    /\ op = "_detect_shocks"
    /\ \E w \in 1..Len(event_windows) :
        /\ Len(event_windows[w]) = 3
        /\ event_windows[w][1].Days_From_Event < 0
        /\ event_windows[w][2].Days_From_Event = 0
        /\ event_windows[w][3].Days_From_Event > 0

\* C8: when the announcement date of a non-empty window has no row in the
\* series, every row of that window is classified No Shock.
C8_MissingAnnouncementDay ==
    \A w \in 1..Len(event_windows) :
        SeriesRowsAt(event_windows[w][1].Event_Date) = {} =>
            \A k \in 1..Len(event_windows[w]) :
                event_windows[w][k].Shock_Type = "No Shock"

\* C9: the epoch (FOMC_Window) of every series row is the index of the latest
\* calendar date at or before the row's date, and a row dated before the
\* first calendar date has no epoch.
C9_Epoch ==
    \A i \in 1..Len(df) :
        LET atOrBefore == {j \in 1..Len(dates) : dates[j] <= df[i].Date}
        IN  IF atOrBefore = {} THEN df[i].FOMC_Window = NoEpoch
            ELSE \E j \in atOrBefore :
                    /\ \A l \in atOrBefore : dates[l] <= dates[j]
                    /\ df[i].FOMC_Window = j - 1

\* C10: in the pipeline identify_shock_events every Event_Date of the windows
\* handed to the visualisation step is a date of the FOMC calendar.
C10_PipelineEventDates ==
    \A j \in 1..Len(vis) : IsIn(vis[j].Event_Date, fomc_dates)

\* C11: tagging and window building leave self.data as it was, whatever the
\* number of calls: every write of _detect_shocks goes through df or window,
\* which name copies, so self.data has the rows, columns and values it had;
\* and two executions of _detect_shocks with the same calendar and threshold
\* return equal results.
C11_InputNotMutated ==
    [][/\ data' = data
       /\ (dates' = dates /\ threshold' = threshold) =>
              (df' = df /\ event_windows' = event_windows /\ events_df' = events_df)
      ]_vars

\* C11 witness: a direct call, made after the call of the constructor, wrote
\* the tagging columns on every row of df and the window columns on the copy
\* of a row of the series, and self.data still has its own three columns on
\* every row.
C11_Witness ==
    /\ op = "_detect_shocks"
    /\ raised = "none"
    /\ data # <<>>
    /\ \A i \in 1..Len(data) : DOMAIN data[i] = {"Date", "SP500_Return", "Rate_Change"}
    /\ Len(df) = Len(data)
    /\ \A i \in 1..Len(df) :
          {"is_fomc_date", "FOMC_Window", "Rate_Change_bp", "Shock_Type"} \subseteq DOMAIN df[i]
    /\ \E i \in 1..Len(data) : \E j \in 1..Len(events_df) :
          /\ events_df[j].Date = data[i].Date
          /\ "Days_From_Event" \in DOMAIN events_df[j]

\* The cumulative return, as a percentage, from the first row of d's range up
\* to series row k.
ExpectedCumPct(d, k) ==
    LET prod == ProductOfReturns({x \in InRange(d) : data[x].Date <= data[k].Date})
    IN  <<(prod[1] - prod[2]) * 100, prod[2]>>

\* The copies of series row k in the window of announcement date d.
CopiesOf(d, k) == {x \in RowsOf(d) : events_df[x].Date = data[k].Date}

\* C12: windows are not deduplicated: a series row in the range of two
\* announcement dates appears once in each of the two windows, each copy with
\* the offset from its own announcement date and the cumulative return
\* seeded at its own window's first row.
C12_NoDeduplication ==
    \A i \in 1..Len(dates) :
        \A k \in InRange(dates[i]) :
            (\E j \in 1..Len(dates) : dates[j] # dates[i] /\ k \in InRange(dates[j])) =>
                /\ Cardinality(CopiesOf(dates[i], k)) = 1
                /\ \A x \in CopiesOf(dates[i], k) :
                    /\ events_df[x].Days_From_Event = data[k].Date - dates[i]
                    /\ FracEq(events_df[x].Cum_Return_pct, ExpectedCumPct(dates[i], k))

\* C12 witness: one series row has a copy in each of two windows, with
\* different offsets and different cumulative returns.
C12_Witness ==
    /\ op = "_detect_shocks"
    /\ \E x, y \in 1..Len(events_df) :
        /\ events_df[x].Date = events_df[y].Date
        /\ events_df[x].Event_Date # events_df[y].Event_Date
        /\ events_df[x].Days_From_Event # events_df[y].Days_From_Event
        /\ ~FracEq(events_df[x].Cum_Return_pct, events_df[y].Cum_Return_pct)

\* C13: the call returns, the number of distinct announcement dates in the
\* window output is the size of the calendar minus the number of calendar
\* dates with no series row in range, and with an empty calendar the output
\* is empty.
C13_WindowCount ==
    /\ raised # "KeyError"
    /\ Cardinality({events_df[j].Event_Date : j \in 1..Len(events_df)}) =
           Len(dates) - Cardinality({i \in 1..Len(dates) : InRange(dates[i]) = {}})
    /\ dates = <<>> => events_df = <<>>

\* The position of announcement date d in the calendar.
PositionOf(d) == CHOOSE i \in 1..Len(dates) : dates[i] = d

\* C14: the concatenated output follows the calendar's iteration order: the
\* rows of an earlier-iterated date's window all come before those of a
\* later-iterated one, and within a window rows keep series order.
C14_OutputOrder ==
    \A x, y \in 1..Len(events_df) :
        x < y =>
            /\ PositionOf(events_df[x].Event_Date) <= PositionOf(events_df[y].Event_Date)
            /\ events_df[x].Event_Date = events_df[y].Event_Date =>
                   events_df[x].Date < events_df[y].Date

\* C14 witness: the calendar is not ascending and the output has the window
\* of its later date before the window of its earlier date.
C14_Witness ==
    /\ op = "_detect_shocks"
    /\ \E x, y \in 1..Len(events_df) :
        /\ x < y
        /\ events_df[x].Event_Date > events_df[y].Event_Date
        /\ PositionOf(events_df[x].Event_Date) < PositionOf(events_df[y].Event_Date)

\* The dates of a calendar in ascending order.
RECURSIVE SortAsc(_)
SortAsc(ds) ==
    IF ds = <<>> THEN <<>>
    ELSE LET m == CHOOSE i \in 1..Len(ds) : \A j \in 1..Len(ds) : ds[i] <= ds[j]
         IN  <<ds[m]>> \o SortAsc(SubSeq(ds, 1, m - 1) \o SubSeq(ds, m + 1, Len(ds)))

\* C15: the calendar is treated as sorted: for a calendar in any order the
\* epoch of every row and the sequence of windows are those of the same
\* calendar in ascending order.
C15_CalendarOrderIrrelevant ==
    \A s \in {DetectShocks(data, SortAsc(dates), threshold)} :
        /\ event_windows = s.event_windows
        /\ \A i \in 1..Len(df) : df[i].FOMC_Window = s.df[i].FOMC_Window

\* C17: an empty series is no error: the call returns, with an empty
\* enriched series and no window.
C17_EmptySeries ==
    data = <<>> => (raised = "none" /\ df = <<>> /\ events_df = <<>>)

\* The rows of the visualised frame at offset o.
RowsAtOffset(o) == {j \in 1..Len(vis) : vis[j].Days_From_Event = o}

\* The sum of the cumulative returns of the visualised rows G, over den.
RECURSIVE SumOfCum(_, _)
SumOfCum(G, den) ==
    IF G = {} THEN 0
    ELSE LET j == CHOOSE x \in G : TRUE
         IN  vis[j].Cum_Return_pct[1] * (den \div vis[j].Cum_Return_pct[2])
                 + SumOfCum(G \ {j}, den)

\* Fraction p is the arithmetic mean of the cumulative returns of rows G.
IsMeanOf(p, G) ==
    \E den \in {vis[j].Cum_Return_pct[2] : j \in G} :
        /\ \A j \in G : vis[j].Cum_Return_pct[2] <= den
        /\ p[2] % (den * Cardinality(G)) = 0
        /\ p[1] = SumOfCum(G, den) * (p[2] \div (den * Cardinality(G)))

\* C16: for every offset present in the windows the averaged trajectory has
\* exactly one point, whose value is the arithmetic mean of the cumulative
\* returns of the rows with that offset; for a single window the averaged
\* trajectory is that window's own cumulative returns, unchanged.
C16_AverageByOffset ==
    /\ \A j \in 1..Len(vis) :
        \E i \in 1..Len(avg_cum) :
            /\ avg_cum[i].Days_From_Event = vis[j].Days_From_Event
            /\ \A i2 \in 1..Len(avg_cum) :
                   avg_cum[i2].Days_From_Event = vis[j].Days_From_Event => i2 = i
            /\ IsMeanOf(avg_cum[i].Cum_Return_pct, RowsAtOffset(vis[j].Days_From_Event))
    /\ \A i \in 1..Len(avg_cum) : RowsAtOffset(avg_cum[i].Days_From_Event) # {}
    /\ (vis # <<>> /\ \A j \in 1..Len(vis) : vis[j].Event_Date = vis[1].Event_Date) =>
        /\ Len(avg_cum) = Len(vis)
        /\ \A j \in 1..Len(vis) :
            /\ avg_cum[j].Days_From_Event = vis[j].Days_From_Event
            /\ FracEq(avg_cum[j].Cum_Return_pct, vis[j].Cum_Return_pct)

\* C16 witness: an averaged point over two windows whose rows at that offset
\* have different cumulative returns.
C16_Witness ==
    /\ op = "_visualise_shocks"
    /\ \E x, y \in 1..Len(vis) :
        /\ vis[x].Days_From_Event = vis[y].Days_From_Event
        /\ vis[x].Event_Date # vis[y].Event_Date
        /\ ~FracEq(vis[x].Cum_Return_pct, vis[y].Cum_Return_pct)
    /\ avg_cum # <<>>

\* C16 witness: a single window of several rows was averaged.
C16_SingleWindowWitness ==
    /\ op = "_visualise_shocks"
    /\ Len(event_windows) = 1
    /\ Len(vis) >= 2

\* _detect_shocks ran on the scenario calendar (the series is a scenario
\* series in every state of SpecScenario).
ScenarioRun ==
    /\ op = "_detect_shocks"
    /\ dates = ScenarioCalendar
    /\ [i \in 1..Len(data) |-> data[i].Date] = ScenarioDays
    /\ [i \in 1..Len(data) |-> data[i].SP500_Return] = ScenarioReturns

\* The scenario as documented, the cumulative returns read as fractions of 1
\* (0.0, -0.02, 0.0094 are 0, -2 and 0.94 percent).
C18_ScenarioAsStated ==
    ScenarioRun =>
        /\ raised = "none"
        /\ [j \in 1..Len(events_df) |-> events_df[j].Date] = <<732, 733, 734>>
        /\ [j \in 1..Len(events_df) |-> events_df[j].Days_From_Event] = <<-1, 0, 1>>
        /\ \A j \in 1..Len(events_df) :
               FracEq(events_df[j].Cum_Return_pct, <<<<0, 1>>, <<-2, 1>>, <<94, 100>>>>[j])

\* C18: for a series with rows 2022-01-01..2022-01-05 and returns 0.01,
\* -0.02, 0.03, 0.0, 0.01 and the one calendar date 2022-01-03, the window
\* (10 days before to 20 days after, the only width there is) covers
\* 2022-01-01..2022-01-05 with offsets -2..2 and cumulative returns, in
\* percent, 1, -1.02, 1.9494, 1.9494, 2.968894.
C18_Scenario ==
    ScenarioRun =>
        /\ raised = "none"
        /\ Len(event_windows) = 1
        /\ [j \in 1..Len(events_df) |-> events_df[j].Date] = ScenarioDays
        /\ [j \in 1..Len(events_df) |-> events_df[j].Days_From_Event] = <<-2, -1, 0, 1, 2>>
        /\ \A j \in 1..Len(events_df) :
               FracEq(events_df[j].Cum_Return_pct,
                      <<<<1, 1>>, <<-102, 100>>, <<19494, 10000>>, <<19494, 10000>>,
                        <<2968894, 1000000>>>>[j])

\* C18 witness: the scenario call returned its window.
C18_Witness ==
    /\ ScenarioRun
    /\ raised = "none"
    /\ \E j \in 1..Len(events_df) :
           events_df[j].Event_Date = 733 /\ events_df[j].Days_From_Event = 0

\* C19: simulate_event on an EventSimulator on which fit_model was never
\* called fails with ValueError("Model not fitted yet. Call fit_model()
\* first.") and produces no simulation rows.
C19_UnfittedSimulate ==
    (sim.op = "simulate_event" /\ ~sim.has_model) =>
        /\ sim.raised = "ValueError: Model not fitted yet. Call fit_model() first."
        /\ sim.out = <<>>

\* C20: in any sequence of calls on a policy_impacts EventSimulator,
\* simulate_event raises the ValueError of its guard when fit_model has not
\* completed yet (a model is None), and does not raise it once fit_model has
\* completed.
C20_FittedGuard ==
    pol.op = "simulate_event" =>
        /\ (pol.raised = ModelsNotFitted) <=> ~pol.fit_completed
        /\ ~pol.fit_completed <=> (pol.us_model = None \/ pol.uk_model = None)

\* C20 witness: simulate_event returned rows after a completed fit_model.
C20_Witness ==
    /\ pol.op = "simulate_event"
    /\ pol.fit_completed
    /\ pol.raised = "none"
    /\ pol.out # <<>>

\* C20 witness of the other case: simulate_event refused before any completed
\* fit_model.
C20_UnfittedWitness ==
    /\ pol.op = "simulate_event"
    /\ ~pol.fit_completed
    /\ pol.raised = ModelsNotFitted

\* C21: after fit_model has completed, last_date is the most recent date of
\* the training data, and the first simulated month of simulate_event lies
\* after the last date of the training data.
C21_LastDate ==
    pol.op # "none" /\ pol.fit_completed =>
        /\ pol.last_date = pol.data[Len(pol.data)].Date
        /\ pol.sim_index # <<>> => pol.sim_index[1] > pol.data[Len(pol.data)].Date

\* The last load_data was given no price data by one of its downloads.
NoPricesReturned ==
    /\ ld.op = "load_data"
    /\ \E ticker \in DOMAIN ld.in_yf :
           ld.in_yf[ticker] = NoDownload \/ Len(ld.in_yf[ticker].rows) = 0

NoDataErrors ==
    {"ValueError: No data fetched from Yahoo Finance for ticker ^GSPC",
     "ValueError: No data fetched from Yahoo Finance for ticker AGG",
     "ValueError: No data fetched from Yahoo Finance for ticker IGLT.L"}

\* C22: in every DataLoader, a load_data whose price download returned no
\* data (None or an empty frame) writes no combined_data.csv: the loaders of
\* shocks_and_reactions and policy_impacts raise ValueError, the loader of
\* corporate_descisions returns without raising.
C22_NoPricesNoFile ==
    NoPricesReturned =>
        /\ ~ld.written
        /\ ld.kind \in {"shocks_and_reactions", "policy_impacts"} =>
               ld.raised \in NoDataErrors
        /\ ld.kind = "corporate_descisions" => ld.raised = "none"

\* A policy loader whose second download came back empty, after an earlier
\* load_data that had written the file: the file is still there, not rewritten.
C22_Witness ==
    /\ NoPricesReturned
    /\ ld.kind = "policy_impacts"
    /\ ld.in_yf["AGG"].rows # <<>>
    /\ ld.in_yf["IGLT.L"] = EmptyDownload
    /\ ld.file.exists
    /\ ~ld.written

\* C23: in the loaders of shocks_and_reactions and policy_impacts,
\* _combine_data returns rows sorted by date, taken from the forward-filled
\* outer join of its two inputs, and no returned row has a missing value in
\* any column.
C23_CombinedComplete ==
    ld.op = "_combine_data" =>
        /\ \A i \in 1..(Len(ld.out.rows) - 1) : ld.out.rows[i].Date < ld.out.rows[i + 1].Date
        /\ \A i \in 1..Len(ld.out.rows) :
               /\ ld.out.rows[i].Date \in FrameDates(ld.dataset_1) \cup FrameDates(ld.dataset_2)
               /\ DOMAIN ld.out.rows[i].v = {"A", "B"}
               /\ \A c \in {"A", "B"} : ld.out.rows[i].v[c] # NaN

\* The shock-type dummy columns of the fitted design matrix.
DummiesOfX == {sim.X[i] : i \in {j \in 1..Len(sim.X) : IsDummy(sim.X[j])}}

\* C24: in simulate_event the shock applies on the announcement day only: the
\* rate-change predictor is announcement_rate_change_bp on day 0 and 0 on
\* every later day, every shock-type dummy is 0 after day 0, and on day 0 at
\* most one dummy is 1, namely the one whose name matches shock_type.
C24_AnnouncementDayOnly ==
    sim.op = "simulate_event" /\ sim.raised = "none" =>
        \A k \in 1..Len(sim.loop) :
            LET p == sim.loop[k].predictions
                ones == {col \in DummiesOfX : p[col] = <<1, 1>>}
            IN  /\ sim.loop[k].day = k - 1
                /\ p["Rate_Change_bp"] = IF k = 1 THEN sim.in_rate_bp ELSE <<0, 1>>
                /\ \A col \in DummiesOfX : p[col] \in {<<0, 1>>, <<1, 1>>}
                /\ k > 1 => ones = {}
                /\ k = 1 => /\ Cardinality(ones) <= 1
                            /\ ones = {col \in DummiesOfX : DummyName(col) = sim.in_shock_type}

\* A two-day simulation of a 10 bp hike on a model with a Hike dummy: the
\* dummy and the rate change are set on day 0 and zero on day 1.
C24_Witness ==
    /\ sim.op = "simulate_event"
    /\ sim.raised = "none"
    /\ Len(sim.loop) = 2
    /\ sim.in_shock_type = "Hike"
    /\ sim.in_rate_bp = <<10, 1>>
    /\ \E col \in DummiesOfX :
           /\ sim.loop[1].predictions[col] = <<1, 1>>
           /\ sim.loop[2].predictions[col] = <<0, 1>>
    /\ sim.loop[1].predictions["Rate_Change_bp"] = <<10, 1>>
    /\ sim.loop[2].predictions["Rate_Change_bp"] = <<0, 1>>

\* The last row of the simulator's data, where the simulation starts.
SimLastRow == sim.data[Len(sim.data)]

\* C25: simulate_event with days_ahead = n >= 0 returns exactly n rows with
\* Day = 0..n-1 and Simulated_Date = start date + (Day + 1) days; the level of
\* a day is the level of the day before (the last observed level on day 0)
\* times 1 + that day's predicted return; the cumulative return of a row is
\* its level over the starting level minus 1; the lagged-return predictor of a
\* day is the predicted return of the day before; the lagged M1 growth
\* predictor is the starting value on every day.  The returned columns hold
\* these quantities rounded to four decimals, the returns in percent.
C25_SimulationPath ==
    sim.op = "simulate_event" /\ sim.raised = "none" =>
        /\ Len(sim.out) = sim.in_days_ahead
        /\ Len(sim.loop) = sim.in_days_ahead
        /\ \A k \in 1..Len(sim.out) :
            LET level == sim.loop[k].new_sp500
                before == IF k = 1 THEN SimLastRow.Close ELSE sim.loop[k - 1].new_sp500
                cumulative == RatSub(RatDiv(level, SimLastRow.Close), <<1, 1>>)
            IN  /\ sim.out[k].Day = k - 1
                /\ sim.out[k].Simulated_Date = SimLastRow.Date + (sim.out[k].Day + 1)
                /\ level = RatMul(before, RatAdd(<<1, 1>>, sim.loop[k].predicted_return))
                /\ sim.out[k].Simulated_SP500_Level = Round4(level)
                /\ sim.out[k].Cumulative_Return_pct = Round4(RatMul(cumulative, <<100, 1>>))
                /\ sim.out[k].Predicted_Daily_Return_pct =
                       Round4(RatMul(sim.loop[k].predicted_return, <<100, 1>>))
                /\ sim.loop[k].predictions["Lagged_Return"] =
                       IF k = 1 THEN SimLastRow.Lagged_Return
                       ELSE sim.loop[k - 1].predicted_return
                /\ sim.loop[k].predictions["Lagged_M1_Growth"] = SimLastRow.Lagged_M1_Growth

\* A two-day simulation with two different non-zero predicted returns, from
\* a non-zero lagged M1 growth.
C25_Witness ==
    /\ sim.op = "simulate_event"
    /\ sim.raised = "none"
    /\ Len(sim.out) = 2
    /\ sim.loop[1].predicted_return # <<0, 1>>
    /\ sim.loop[2].predicted_return # <<0, 1>>
    /\ sim.loop[2].predicted_return # sim.loop[1].predicted_return
    /\ sim.loop[2].new_sp500 # sim.loop[1].new_sp500
    /\ SimLastRow.Lagged_M1_Growth # <<0, 1>>

\* The sum of the values of column col over the first k rows of the policy
\* simulation.
RECURSIVE PolicySum(_, _)
PolicySum(col, k) ==
    IF k = 0 THEN <<0, 1>> ELSE RatAdd(PolicySum(col, k - 1), pol.out[k][col])

PolLastRow == pol.data[Len(pol.data)]

\* C26: a simulate_event with months = m >= 1 that returns has exactly m rows
\* indexed Month 1..m; the rate change of each month is the total over m, so
\* the monthly changes sum to the total; the cumulative returns of month k are
\* the sums of the predicted returns of the months 1..k; the spread level of
\* month k is the last observed spread plus k times spread_impact_factor
\* times the monthly change.
C26_MonthlyPath ==
    pol.op = "simulate_event" /\ pol.raised = "none" /\ pol.in_months >= 1 =>
        LET m == pol.in_months
            monthly_us == RatDiv(pol.in_total_us, <<m, 1>>)
            monthly_uk == RatDiv(pol.in_total_uk, <<m, 1>>)
        IN  /\ Len(pol.out) = m
            /\ Len(pol.sim_index) = m
            /\ PolicySum("US_Rate_Change_Monthly", m) = pol.in_total_us
            /\ PolicySum("UK_Rate_Change_Monthly", m) = pol.in_total_uk
            /\ \A k \in 1..m :
                /\ pol.out[k].Month = k
                /\ pol.out[k].US_Rate_Change_Monthly = monthly_us
                /\ pol.out[k].UK_Rate_Change_Monthly = monthly_uk
                /\ pol.out[k].Cum_US_Return = PolicySum("Predicted_US_Return", k)
                /\ pol.out[k].Cum_UK_Return = PolicySum("Predicted_UK_Return", k)
                /\ pol.out[k].US_Spread_Level =
                       RatAdd(PolLastRow.US_Spread,
                              RatMul(<<k, 1>>, RatMul(pol.in_factor, monthly_us)))
                /\ pol.out[k].UK_Spread_Level =
                       RatAdd(PolLastRow.UK_Spread,
                              RatMul(<<k, 1>>, RatMul(pol.in_factor, monthly_uk)))

\* A three-month simulation with non-zero predicted returns and a spread
\* that moves.
C26_Witness ==
    /\ pol.op = "simulate_event"
    /\ pol.raised = "none"
    /\ pol.in_months = 3
    /\ Len(pol.out) = 3
    /\ pol.out[1].Predicted_US_Return # <<0, 1>>
    /\ pol.out[1].Predicted_UK_Return # <<0, 1>>
    /\ pol.out[3].US_Spread_Level # PolLastRow.US_Spread
    /\ pol.out[3].UK_Spread_Level # PolLastRow.UK_Spread

\* The tickers with historical rows in the corporate panel.
TickersWithData == {corp.data[i].Ticker : i \in 1..Len(corp.data)}

\* The rows of the corporate simulation for one ticker and one quarter.
SimulatedRows(ticker, k) ==
    {i \in 1..Len(corp.out) : corp.out[i].Ticker = ticker /\ corp.out[i].Quarter = k}

\* The product over the quarters 1..k of 1 + the ticker's predicted growth.
RECURSIVE Compounded(_, _)
Compounded(ticker, k) ==
    IF k = 0 THEN <<1, 1>>
    ELSE RatMul(Compounded(ticker, k - 1),
                RatAdd(<<1, 1>>,
                       corp.out[CHOOSE i \in SimulatedRows(ticker, k) : TRUE].Predicted_Capex_Growth))

\* C27: simulate_event with quarters = q returns exactly one row for every
\* quarter of 1..q and every ticker with historical data and no other row,
\* so a ticker without historical rows has no row in any quarter; the
\* Cumulative_Capex_Change of a ticker in quarter k is the product over the
\* quarters 1..k of 1 + that ticker's Predicted_Capex_Growth, minus 1.
C27_RowsAndCompounding ==
    corp.op = "simulate_event" =>
        /\ \A i \in 1..Len(corp.out) :
               /\ corp.out[i].Ticker \in TickersWithData
               /\ corp.out[i].Quarter \in 1..corp.in_quarters
        /\ \A k \in 1..corp.in_quarters : \A ticker \in TickersWithData :
               /\ Cardinality(SimulatedRows(ticker, k)) = 1
               /\ \A i \in SimulatedRows(ticker, k) :
                      corp.out[i].Cumulative_Capex_Change =
                          RatSub(Compounded(ticker, k), <<1, 1>>)

\* A simulation of two quarters on a panel of two tickers: four rows, and
\* the two tickers differ in the cumulative change of the second quarter.
C27_Witness ==
    /\ corp.op = "simulate_event"
    /\ corp.in_quarters = 2
    /\ TickersWithData = {"AAPL", "MSFT"}
    /\ Len(corp.out) = 4
    /\ \A i \in 1..4 : corp.out[i].Predicted_Capex_Growth # <<0, 1>>
    /\ \E i \in SimulatedRows("AAPL", 2) : \E j \in SimulatedRows("MSFT", 2) :
           /\ corp.out[i].Cumulative_Capex_Change # corp.out[j].Cumulative_Capex_Change
           /\ corp.out[i].Cumulative_Capex_Change # corp.out[i].Predicted_Capex_Growth

\* C28: two runs of simulate_event on the same data with the same arguments,
\* in the same process or in two processes, use the same seed for each
\* (ticker, quarter) and return the same simulated returns, and two
\* different (ticker, quarter) pairs never have the same seed.
C28_Reproducible ==
    corp.op = "simulate_event" /\ corp.runs = 2 =>
        /\ corp.seeds = corp.prev_seeds
        /\ Len(corp.out) = Len(corp.prev_out)
        /\ \A i \in 1..Len(corp.out) :
               corp.out[i].Simulated_Return = corp.prev_out[i].Simulated_Return
        /\ \A i, j \in 1..Len(corp.seeds) :
               i # j => corp.seeds[i].seed # corp.seeds[j].seed

====
